---- MODULE Spec2Model ----
(***************************************************************************)
(* A model of the trading pipeline: the event bus (Redis Streams or the    *)
(* in-memory queue), RiskService, ExecutionService and                     *)
(* ReconciliationService, the orders and positions tables they share, and  *)
(* the venue's create_order calls.                                         *)
(*                                                                         *)
(* Units: prices and stop distances are integers in hundredths of the      *)
(* quote currency (5000 is 50.00); sizes and equity are whole units.  A    *)
(* risk amount stop_distance * size is therefore in hundredths, and        *)
(* "open_risk > 0.06 * equity" reads open_risk > 6 * equity.               *)
(* A missing (None) number and a zero are both written 0: every test the   *)
(* code makes on them is "not x", which does not tell them apart.          *)
(***************************************************************************)
EXTENDS Integers, Sequences, FiniteSets, Bags, TLC

VARIABLES
    settings,     \* app.dry_run, redis.enabled, reconciliation.auto_repair
    bus,          \* [streams: the Redis streams, queue: each service's in-memory queue]
    last_id,      \* each service's _last_id cursor
    running,      \* whether each service's run() loop is still alive
    orders,       \* the orders table: a bag of rows
    positions,    \* the positions table: a bag of rows
    venue_calls,  \* how many create_order calls the venue clients have received
    delivered,    \* what consume() has returned: {[svc, stream, src, id]}
    last_exec,    \* what ExecutionService did with the last event it handled
    seen,         \* per stream message: what ExecutionService did with it first
    recon_log,    \* what ReconciliationService has logged: {[event, symbol]}
    loop,         \* each service's run() loop: [stopping, waiting, handling]
    account_states, \* the account_states table: the rows' equity, oldest first
    env,          \* how often the environment has acted: [restarts, injected, reconciles, closes]
    clients,      \* per service with venue clients: [phase, close: client -> what close() did]
    last_recon,   \* the last reconciliation pass: the rows it read, the venue's answers
    price_history, \* StrategyService.price_history: per (exchange, symbol) the closes kept
    sizing,       \* a call of calculate_position_size: its arguments and what it did
    data          \* DataService: the polls run and what the last one fetched and published

vars == <<settings, bus, last_id, running, orders, positions, venue_calls,
          delivered, last_exec, seen, recon_log, loop, account_states, env,
          clients, last_recon, price_history, sizing, data>>

----------------------------------------------------------------------------
(* Bounds of the model *)

MaxSignals == 2       \* signals published on the signals stream
MaxInjected == 2      \* events a harness publishes on one service's own bus
MaxRestarts == 1      \* times the ExecutionService process is started again
MaxClock == 1         \* time.time_ns() returns a value in 0..MaxClock
MaxReconciles == 1    \* reconciliation passes
MaxAccountRows == 1   \* rows written to the account_states table
MaxCloses == 3        \* market events handed to StrategyService._handle_market_event
MaxPolls == 2         \* iterations of DataService.run

----------------------------------------------------------------------------
(* Program constants *)

PlaceholderEquity == 100000     \* RiskService._equity
MaxPortfolioHeatPct == 6        \* RiskConfig.max_portfolio_heat = 0.06
MaxLeverageTenths == 15         \* RiskConfig.max_leverage = 1.5
EmptyMessageId == -1            \* the "" the in-memory consume returns as message_id
ZeroId == 0                     \* the "0-0" cursor a service is constructed with
HistoryMaxLen == 500            \* deque(maxlen=500)
FastMaPeriod == 1               \* strategy.parameters["fast_ma_period"]
SlowMaPeriod == 2               \* strategy.parameters["slow_ma_period"]
AtrPeriod == 1                  \* strategy.parameters["atr_period"]
AtrMultiplier == 2              \* strategy.parameters.get("atr_multiplier", 2.0)
MaxRiskPerTradePct == 2         \* RiskConfig.max_risk_per_trade = 0.02
DefaultNonce == 0               \* make_client_order_id's nonce default

Services == {"strategy", "risk", "execution", "reconciliation"}
StreamNames == {"market_data", "signals", "approved_signals", "reconciliations"}
Exchanges == {"binance"}        \* settings.exchanges: the configured venue clients
Timestamps == 0..MaxClock

----------------------------------------------------------------------------
(* Events *)

Event(type, payload) == [type |-> type, payload |-> payload]

SignalPayload(strategy, exchange, symbol, decision, price, sd, size) ==
    [strategy |-> strategy, exchange |-> exchange, symbol |-> symbol,
     decision |-> decision, price |-> price,
     risk |-> [stop_distance |-> sd, position_size |-> size]]

\* The signals the strategy stage publishes in this model.
SignalPayloads ==
    { SignalPayload("trend", "binance", "BTC/USDT", "buy", 5000, 400, 1000),
      SignalPayload("trend", "binance", "BTC/USDT", "sell", 5000, 400, 1000),
      SignalPayload("trend", "binance", "ETH/USDT", "buy", 5000, 400, 1000) }

----------------------------------------------------------------------------
(* EventBus *)

EmptyBus ==
    [streams |-> [s \in StreamNames |-> <<>>],
     queue   |-> [svc \in Services |-> <<>>]]

\* EventBus.publish on the bus of service svc.
Publish(b, svc, stream, event) ==
    IF settings.redis_enabled
    THEN [b EXCEPT !.streams[stream] = Append(@, event)]
    ELSE [b EXCEPT !.queue[svc] = Append(@, [stream |-> stream, event |-> event])]

\* Whether EventBus.consume returns an event (otherwise: TimeoutError on Redis,
\* an await that does not return on the in-memory queue).
CanConsume(b, svc, stream, cursor) ==
    IF settings.redis_enabled
    THEN cursor >= 0 /\ cursor < Len(b.streams[stream])
    ELSE Len(b.queue[svc]) > 0

\* A consume that reads the newest entry of the stream, whatever the cursor.
ConsumeLatest(b, svc, stream, cursor) ==
    IF settings.redis_enabled
    THEN [event |-> b.streams[stream][Len(b.streams[stream])],
          message_id |-> Len(b.streams[stream]), src |-> stream, bus |-> b]
    ELSE [event |-> Head(b.queue[svc]).event, message_id |-> EmptyMessageId,
          src |-> Head(b.queue[svc]).stream,
          bus |-> [b EXCEPT !.queue[svc] = Tail(@)]]

\* A consume that returns the cursor it was given as the message id.
ConsumeSameId(b, svc, stream, cursor) ==
    IF settings.redis_enabled
    THEN [event |-> b.streams[stream][cursor + 1], message_id |-> cursor,
          src |-> stream, bus |-> b]
    ELSE [event |-> Head(b.queue[svc]).event, message_id |-> EmptyMessageId,
          src |-> Head(b.queue[svc]).stream,
          bus |-> [b EXCEPT !.queue[svc] = Tail(@)]]

\* EventBus.consume: [event, message_id, src, bus], src being the stream the
\* returned event was published to.
Consume(b, svc, stream, cursor) ==
    IF settings.redis_enabled
    THEN [event |-> b.streams[stream][cursor + 1], message_id |-> cursor + 1,
          src |-> stream, bus |-> b]
    ELSE [event |-> Head(b.queue[svc]).event, message_id |-> EmptyMessageId,
          src |-> Head(b.queue[svc]).stream,
          bus |-> [b EXCEPT !.queue[svc] = Tail(@)]]

Delivery(svc, stream, got) ==
    [svc |-> svc, stream |-> stream, src |-> got.src, id |-> got.message_id]

\* The services that build venue clients in setup() and override stop().
ClientServices == {"data", "execution", "reconciliation"}

\* The keys of self._clients: a deployment with two venues configured.
ClientNames == {"binance", "bybit"}

\* What a client's close() did, if it was called.
CloseResults == {"closed", "close_raised"}

\* A process after setup(): running, no close() called on any client.
ClientsOpen == [phase |-> "running", close |-> [c \in ClientNames |-> "open"]]

\* A run() loop at the top of its while: stop() not called, not inside
\* bus.consume, no consumed event whose handler has not returned.
AtHead == [stopping |-> FALSE, waiting |-> FALSE, handling |-> <<>>]

\* The keys of StrategyService.price_history: (exchange, symbol).
HistoryKeys == { <<"binance", "BTC/USDT">>, <<"binance", "ETH/USDT">> }

\* price_history after __init__: a defaultdict, every key's deque empty.
NoHistory == [key \in HistoryKeys |-> <<>>]

\* The value of last_recon before ReconciliationService has made a pass.
NoPass == [rows |-> <<>>, views |-> <<>>, loaded |-> TRUE]

\* The value of last_exec before ExecutionService has handled anything.
NoId == <<>>
NotHandled ==
    [id |-> ZeroId, payload |-> <<>>, outcome |-> "none", client_order_id |-> NoId,
     calls |-> <<>>]

----------------------------------------------------------------------------
(* Initial state: the services constructed, the tables created empty *)

Constructed ==
    /\ settings \in [dry_run : BOOLEAN, redis_enabled : BOOLEAN, auto_repair : BOOLEAN]
    /\ bus = EmptyBus
    /\ last_id = [svc \in Services |-> ZeroId]
    /\ running = [svc \in Services |-> TRUE]
    /\ orders = EmptyBag
    /\ positions = EmptyBag
    /\ venue_calls = [entry |-> 0, stop |-> 0]
    /\ delivered = {}
    /\ last_exec = NotHandled
    /\ seen = <<>>
    /\ recon_log = {}
    /\ loop = [svc \in Services |-> AtHead]
    /\ account_states = <<>>
    /\ env = [restarts |-> 0, injected |-> 0, reconciles |-> 0, closes |-> 0]
    /\ clients = [svc \in ClientServices |-> ClientsOpen]
    /\ last_recon = NoPass

\* No call of calculate_position_size made; DataService before its first poll.
NoSizing == [in |-> <<>>, out |-> <<>>]

\* polls: the _poll_once calls made; pc: where run() is; attempted, failed,
\* published: the (exchange, symbol) pairs the last poll fetched, those whose
\* fetch raised, those it published.
NotPolled ==
    [polls |-> 0, pc |-> "head", attempted |-> <<>>, failed |-> {}, published |-> <<>>]

Idle == sizing = NoSizing /\ data = NotPolled

Init == Constructed /\ price_history = NoHistory /\ Idle

----------------------------------------------------------------------------
(* Order ids and the tables *)

\* make_client_order_id: the blake2b digest of "strategy:symbol:side:ts:nonce",
\* written as the tuple it digests (two ids are equal exactly when the digested
\* strings are).
MakeClientOrderId(strategy, symbol, side, ts, nonce) ==
    <<strategy, symbol, side, ts, nonce>>

Row(r) == SetToBag({r})

OrderRow(client_order_id, exchange, strategy, symbol, side, order_type, price, quantity, raw_response, status) ==
    [client_order_id |-> client_order_id, strategy |-> strategy, symbol |-> symbol,
     exchange |-> exchange, side |-> side, type |-> order_type, price |-> price,
     quantity |-> quantity, raw_response |-> raw_response, status |-> status]

\* The orders.client_order_id UNIQUE constraint: whether the commit of row is
\* refused with an IntegrityError.
UniqueViolation(ords, row) ==
    \E r \in BagToSet(ords) : r.client_order_id = row.client_order_id

\* _record_order on a table without the UNIQUE constraint: every insert commits.
RecordOrderNoConstraint(ords, row) ==
    [raised |-> FALSE, orders |-> ords (+) Row(row)]

\* _record_order inside session_scope: add and commit, or roll back and raise.
RecordOrder(ords, row) ==
    IF UniqueViolation(ords, row)
    THEN [raised |-> TRUE, orders |-> ords]
    ELSE [raised |-> FALSE, orders |-> ords (+) Row(row)]

\* A Position constructed with the column default of reduce_only_stop_installed.
PositionRowDefaultFlag(symbol, exchange, strategy, quantity, entry_price, stop_price) ==
    [symbol |-> symbol, exchange |-> exchange, strategy |-> strategy,
     quantity |-> quantity, entry_price |-> entry_price, stop_price |-> stop_price,
     reduce_only_stop_installed |-> FALSE]

\* The Position the else branch of _update_position constructs.
PositionRow(symbol, exchange, strategy, quantity, entry_price, stop_price) ==
    [symbol |-> symbol, exchange |-> exchange, strategy |-> strategy,
     quantity |-> quantity, entry_price |-> entry_price, stop_price |-> stop_price,
     reduce_only_stop_installed |-> TRUE]

\* Position.mark_stop_installed
MarkStopInstalled(row) == [row EXCEPT !.reduce_only_stop_installed = TRUE]

\* The rows filter_by(symbol, exchange, strategy) selects.
MatchingRows(pos, symbol, exchange, strategy) ==
    { r \in BagToSet(pos) : /\ r.symbol = symbol
                            /\ r.exchange = exchange
                            /\ r.strategy = strategy }

\* _update_position without the lookup: a new row for every fill.
UpdatePositionAlwaysInsert(pos, symbol, exchange, strategy, quantity, entry_price, stop_price) ==
    [raised |-> FALSE,
     positions |-> pos (+) Row([symbol |-> symbol, exchange |-> exchange,
                                strategy |-> strategy, quantity |-> quantity,
                                entry_price |-> entry_price, stop_price |-> stop_price,
                                reduce_only_stop_installed |-> TRUE])]

\* _update_position inside session_scope.  one_or_none() raises when more than
\* one row matches; the transaction is then rolled back.
UpdatePosition(pos, symbol, exchange, strategy, quantity, entry_price, stop_price) ==
    LET m == MatchingRows(pos, symbol, exchange, strategy) IN
    IF m = {}
    THEN [raised |-> FALSE,
          positions |-> pos (+) Row(PositionRow(symbol, exchange, strategy,
                                                quantity, entry_price, stop_price))]
    ELSE IF Cardinality(m) = 1 /\ \A r \in m : CopiesIn(r, pos) = 1
    THEN LET position == CHOOSE r \in m : TRUE IN
         [raised |-> FALSE,
          positions |-> (pos (-) Row(position)) (+) Row(MarkStopInstalled(
                            [position EXCEPT !.quantity = @ + quantity,
                                             !.entry_price = entry_price,
                                             !.stop_price = stop_price]))]
    ELSE [raised |-> TRUE, positions |-> pos]

----------------------------------------------------------------------------
(* ExecutionService *)

EntryRequest(symbol, side, position_size, price, client_order_id) ==
    [symbol |-> symbol, type |-> "limit", side |-> side, amount |-> position_size,
     price |-> price, clientOrderId |-> client_order_id,
     reduceOnly |-> FALSE, stopPrice |-> 0]

StopSide(side) == IF side = "buy" THEN "sell" ELSE "buy"

StopPrice(side, entry_price, stop_distance) ==
    IF side = "buy" THEN entry_price - stop_distance ELSE entry_price + stop_distance

\* A stop request on the side of the entry.
StopRequestSameSide(symbol, side, position_size, entry_price, stop_distance, client_order_id) ==
    [symbol |-> symbol, type |-> "stop_market", side |-> side,
     amount |-> position_size, price |-> 0, clientOrderId |-> client_order_id,
     reduceOnly |-> TRUE, stopPrice |-> StopPrice(side, entry_price, stop_distance)]

StopRequest(symbol, side, position_size, entry_price, stop_distance, client_order_id) ==
    [symbol |-> symbol, type |-> "stop_market", side |-> StopSide(side),
     amount |-> position_size, price |-> 0, clientOrderId |-> client_order_id,
     reduceOnly |-> TRUE, stopPrice |-> StopPrice(side, entry_price, stop_distance)]

\* One create_order call as the venue client saw it; ok: it returned, not raised.
Call(request, ok) == [request |-> request, ok |-> ok]

\* _install_stop with _update_position moved out of the try block: the position
\* is written whether or not the venue accepted the stop.
InstallStopUpdatesRegardless(st, strategy, exchange, symbol, side, entry_price, stop_distance, position_size, in) ==
    LET req == StopRequest(symbol, side, position_size, entry_price, stop_distance,
                   MakeClientOrderId(strategy, symbol, StopSide(side), in.ts_stop,
                                     DefaultNonce))
        upd == UpdatePosition(st.positions, symbol, exchange, strategy,
                   IF side = "buy" THEN position_size ELSE 0 - position_size,
                   entry_price, StopPrice(side, entry_price, stop_distance))
    IN
    IF settings.dry_run
    THEN [st EXCEPT !.outcome = "dry_run_stop"]
    ELSE [st EXCEPT !.calls = Append(@, Call(req, in.stop_ok)),
                    !.positions = upd.positions,
                    !.outcome = IF in.stop_ok THEN "stop_installed"
                                ELSE "stop_install_failed"]

\* _install_stop calling _record_order for the stop the venue accepted.
InstallStopRecordsStop(st, strategy, exchange, symbol, side, entry_price, stop_distance, position_size, in) ==
    LET coid == MakeClientOrderId(strategy, symbol, StopSide(side), in.ts_stop,
                                  DefaultNonce)
        req == StopRequest(symbol, side, position_size, entry_price, stop_distance, coid)
        rec == RecordOrder(st.orders,
                   OrderRow(coid, exchange, strategy, symbol, StopSide(side),
                            "stop_market", StopPrice(side, entry_price, stop_distance),
                            position_size, "accepted", "pending"))
        upd == UpdatePosition(st.positions, symbol, exchange, strategy,
                   IF side = "buy" THEN position_size ELSE 0 - position_size,
                   entry_price, StopPrice(side, entry_price, stop_distance))
    IN
    IF settings.dry_run
    THEN [st EXCEPT !.outcome = "dry_run_stop"]
    ELSE IF ~in.stop_ok
    THEN [st EXCEPT !.calls = Append(@, Call(req, FALSE)),
                    !.outcome = "stop_install_failed"]
    ELSE IF rec.raised
    THEN [st EXCEPT !.calls = Append(@, Call(req, TRUE)),
                    !.outcome = "stop_install_failed"]
    ELSE [st EXCEPT !.calls = Append(@, Call(req, TRUE)),
                    !.orders = rec.orders,
                    !.positions = upd.positions,
                    !.outcome = IF upd.raised THEN "position_update_failed"
                                ELSE "stop_installed"]

\* _install_stop.  in.stop_ok: the venue accepts the stop; in.ts_stop: the clock
\* read of the stop's client order id.  Nothing it raises leaves it.
InstallStop(st, strategy, exchange, symbol, side, entry_price, stop_distance, position_size, in) ==
    LET req == StopRequest(symbol, side, position_size, entry_price, stop_distance,
                   MakeClientOrderId(strategy, symbol, StopSide(side), in.ts_stop,
                                     DefaultNonce))
        upd == UpdatePosition(st.positions, symbol, exchange, strategy,
                   IF side = "buy" THEN position_size ELSE 0 - position_size,
                   entry_price, StopPrice(side, entry_price, stop_distance))
    IN
    IF settings.dry_run
    THEN [st EXCEPT !.outcome = "dry_run_stop"]
    ELSE IF ~in.stop_ok
    THEN [st EXCEPT !.calls = Append(@, Call(req, FALSE)),
                    !.outcome = "stop_install_failed"]
    ELSE [st EXCEPT !.calls = Append(@, Call(req, TRUE)),
                    !.positions = upd.positions,
                    !.outcome = IF upd.raised THEN "position_update_failed"
                                ELSE "stop_installed"]

\* _handle_signal recording the Order row before create_order and keeping it
\* when the venue raises.
ExecHandleSignalRecordsFirst(st, payload, in) ==
    LET risk == payload.risk
        side == IF payload.decision = "buy" THEN "buy" ELSE "sell"
        coid == MakeClientOrderId(payload.strategy, payload.symbol, side,
                                  in.ts_entry, DefaultNonce)
        req  == EntryRequest(payload.symbol, side, risk.position_size,
                             payload.price, coid)
        row(resp, status) ==
            OrderRow(coid, payload.exchange, payload.strategy, payload.symbol, side,
                     "limit", payload.price, risk.position_size, resp, status)
        dry  == RecordOrder(st.orders, row("dry_run", "new"))
        live == RecordOrder(st.orders, row("accepted", "pending"))
    IN
    IF payload.exchange \notin Exchanges
    THEN [st EXCEPT !.outcome = "unknown_exchange"]
    ELSE IF risk.position_size = 0 \/ risk.stop_distance = 0
    THEN [st EXCEPT !.outcome = "missing_risk_info"]
    ELSE IF settings.dry_run
    THEN [st EXCEPT !.orders = dry.orders, !.client_order_id = coid,
                    !.raised = dry.raised,
                    !.outcome = IF dry.raised THEN "record_raised" ELSE "dry_run_order"]
    ELSE IF live.raised
    THEN [st EXCEPT !.client_order_id = coid, !.outcome = "record_failed"]
    ELSE IF ~in.entry_ok
    THEN [st EXCEPT !.calls = Append(@, Call(req, FALSE)), !.orders = live.orders,
                    !.client_order_id = coid, !.outcome = "order_failed"]
    ELSE InstallStop([st EXCEPT !.calls = Append(@, Call(req, TRUE)),
                                !.orders = live.orders, !.client_order_id = coid],
                     payload.strategy, payload.exchange, payload.symbol, side,
                     payload.price, risk.stop_distance, risk.position_size, in)

\* _handle_signal with _record_order in a try block of its own: a refused commit
\* is logged and the stop is installed all the same.
ExecHandleSignalStopsRegardless(st, payload, in) ==
    LET risk == payload.risk
        side == IF payload.decision = "buy" THEN "buy" ELSE "sell"
        coid == MakeClientOrderId(payload.strategy, payload.symbol, side,
                                  in.ts_entry, DefaultNonce)
        req  == EntryRequest(payload.symbol, side, risk.position_size,
                             payload.price, coid)
        row(resp, status) ==
            OrderRow(coid, payload.exchange, payload.strategy, payload.symbol, side,
                     "limit", payload.price, risk.position_size, resp, status)
        dry  == RecordOrder(st.orders, row("dry_run", "new"))
        live == RecordOrder(st.orders, row("accepted", "pending"))
    IN
    IF payload.exchange \notin Exchanges
    THEN [st EXCEPT !.outcome = "unknown_exchange"]
    ELSE IF risk.position_size = 0 \/ risk.stop_distance = 0
    THEN [st EXCEPT !.outcome = "missing_risk_info"]
    ELSE IF settings.dry_run
    THEN [st EXCEPT !.orders = dry.orders, !.client_order_id = coid,
                    !.raised = dry.raised,
                    !.outcome = IF dry.raised THEN "record_raised" ELSE "dry_run_order"]
    ELSE IF ~in.entry_ok
    THEN [st EXCEPT !.calls = Append(@, Call(req, FALSE)),
                    !.client_order_id = coid, !.outcome = "order_failed"]
    ELSE InstallStop([st EXCEPT !.calls = Append(@, Call(req, TRUE)),
                                !.orders = live.orders, !.client_order_id = coid],
                     payload.strategy, payload.exchange, payload.symbol, side,
                     payload.price, risk.stop_distance, risk.position_size, in)

\* _handle_signal taking every decision other than "sell" for a buy.
ExecHandleSignalBuyUnlessSell(st, payload, in) ==
    LET risk == payload.risk
        side == IF payload.decision = "sell" THEN "sell" ELSE "buy"
        coid == MakeClientOrderId(payload.strategy, payload.symbol, side,
                                  in.ts_entry, DefaultNonce)
        req  == EntryRequest(payload.symbol, side, risk.position_size,
                             payload.price, coid)
        row(resp, status) ==
            OrderRow(coid, payload.exchange, payload.strategy, payload.symbol, side,
                     "limit", payload.price, risk.position_size, resp, status)
        dry  == RecordOrder(st.orders, row("dry_run", "new"))
        live == RecordOrder(st.orders, row("accepted", "pending"))
    IN
    IF payload.exchange \notin Exchanges
    THEN [st EXCEPT !.outcome = "unknown_exchange"]
    ELSE IF risk.position_size = 0 \/ risk.stop_distance = 0
    THEN [st EXCEPT !.outcome = "missing_risk_info"]
    ELSE IF settings.dry_run
    THEN [st EXCEPT !.orders = dry.orders, !.client_order_id = coid,
                    !.raised = dry.raised,
                    !.outcome = IF dry.raised THEN "record_raised" ELSE "dry_run_order"]
    ELSE IF ~in.entry_ok
    THEN [st EXCEPT !.calls = Append(@, Call(req, FALSE)),
                    !.client_order_id = coid, !.outcome = "order_failed"]
    ELSE IF live.raised
    THEN [st EXCEPT !.calls = Append(@, Call(req, TRUE)),
                    !.client_order_id = coid, !.outcome = "record_failed"]
    ELSE InstallStop([st EXCEPT !.calls = Append(@, Call(req, TRUE)),
                                !.orders = live.orders, !.client_order_id = coid],
                     payload.strategy, payload.exchange, payload.symbol, side,
                     payload.price, risk.stop_distance, risk.position_size, in)

\* _handle_signal.  st holds the tables before the event; the result holds them
\* after it, with the create_order calls made (calls), what happened (outcome),
\* the entry's client order id and whether an exception left the handler.
\* in: the venue's answers and the clock reads of this handling.
ExecHandleSignal(st, payload, in) ==
    LET risk == payload.risk
        side == IF payload.decision = "buy" THEN "buy" ELSE "sell"
        coid == MakeClientOrderId(payload.strategy, payload.symbol, side,
                                  in.ts_entry, DefaultNonce)
        req  == EntryRequest(payload.symbol, side, risk.position_size,
                             payload.price, coid)
        row(resp, status) ==
            OrderRow(coid, payload.exchange, payload.strategy, payload.symbol, side,
                     "limit", payload.price, risk.position_size, resp, status)
        dry  == RecordOrder(st.orders, row("dry_run", "new"))
        live == RecordOrder(st.orders, row("accepted", "pending"))
    IN
    IF payload.exchange \notin Exchanges
    THEN [st EXCEPT !.outcome = "unknown_exchange"]
    ELSE IF risk.position_size = 0 \/ risk.stop_distance = 0
    THEN [st EXCEPT !.outcome = "missing_risk_info"]
    ELSE IF settings.dry_run
    THEN [st EXCEPT !.orders = dry.orders, !.client_order_id = coid,
                    !.raised = dry.raised,
                    !.outcome = IF dry.raised THEN "record_raised" ELSE "dry_run_order"]
    ELSE IF ~in.entry_ok
    THEN [st EXCEPT !.calls = Append(@, Call(req, FALSE)),
                    !.client_order_id = coid, !.outcome = "order_failed"]
    ELSE IF live.raised
    THEN [st EXCEPT !.calls = Append(@, Call(req, TRUE)),
                    !.client_order_id = coid, !.outcome = "record_failed"]
    ELSE InstallStop([st EXCEPT !.calls = Append(@, Call(req, TRUE)),
                                !.orders = live.orders, !.client_order_id = coid],
                     payload.strategy, payload.exchange, payload.symbol, side,
                     payload.price, risk.stop_distance, risk.position_size, in)

VenueInputs ==
    [entry_ok : BOOLEAN, stop_ok : BOOLEAN, ts_entry : Timestamps, ts_stop : Timestamps]

CountCalls(calls, type) ==
    Cardinality({ i \in DOMAIN calls : calls[i].request.type = type })

\* The venue accepting every order.
ReliableVenue == { in \in VenueInputs : in.entry_ok /\ in.stop_ok }

\* What await self._handle_signal(event) does to the tables, the venue and the
\* service, for the event with message id id; in: the venue's answers and the
\* clock reads.
ExecApply(id, payload, in) ==
    LET st0 == [orders |-> orders, positions |-> positions, calls |-> <<>>,
                outcome |-> "received", client_order_id |-> NoId, raised |-> FALSE]
        st == ExecHandleSignal(st0, payload, in)
    IN
    /\ orders' = st.orders
    /\ positions' = st.positions
    /\ venue_calls' = [entry |-> venue_calls.entry + CountCalls(st.calls, "limit"),
                       stop |-> venue_calls.stop + CountCalls(st.calls, "stop_market")]
    /\ running' = [running EXCEPT !["execution"] = ~st.raised]
    /\ last_exec' = [id |-> id, payload |-> payload, outcome |-> st.outcome,
                     client_order_id |-> st.client_order_id, calls |-> st.calls]
    /\ seen' = IF id \in DOMAIN seen \/ id < 1
               THEN seen
               ELSE Append(seen, [outcome |-> st.outcome,
                                  client_order_id |-> st.client_order_id])

\* One iteration of ExecutionService.run that consumes an event, the venue's
\* answers and the clock reads drawn from Inputs.
ExecRun(Inputs) ==
    /\ running["execution"] /\ loop["execution"] = AtHead
    /\ CanConsume(bus, "execution", "approved_signals", last_id["execution"])
    /\ LET got == Consume(bus, "execution", "approved_signals", last_id["execution"])
       IN /\ bus' = got.bus
          /\ last_id' = [last_id EXCEPT !["execution"] = got.message_id]
          /\ delivered' = delivered \cup {Delivery("execution", "approved_signals", got)}
          /\ \E in \in Inputs : ExecApply(got.message_id, got.event.payload, in)
    /\ UNCHANGED <<settings, recon_log, loop, account_states, env, clients, last_recon, price_history, sizing, data>>

----------------------------------------------------------------------------
(* RiskService *)

Abs(x) == IF x < 0 THEN 0 - x ELSE x

RECURSIVE SumOpenRisk(_, _)
SumOpenRisk(pos, rows) ==
    IF rows = {} THEN 0
    ELSE LET r == CHOOSE x \in rows : TRUE IN
         Abs(r.entry_price - r.stop_price) * Abs(r.quantity) * CopiesIn(r, pos)
         + SumOpenRisk(pos, rows \ {r})

\* _calculate_open_risk: over every row of the positions table.
CalculateOpenRisk(pos) == SumOpenRisk(pos, BagToSet(pos))

PortfolioState(equity, open_risk, daily_loss, cumulative_drawdown) ==
    [equity |-> equity, open_risk |-> open_risk, daily_loss |-> daily_loss,
     cumulative_drawdown |-> cumulative_drawdown]

\* apply_circuit_breakers without its portfolio-heat test.
ApplyCircuitBreakersNoHeat(state) ==
    \/ state.daily_loss <= 0 - state.equity
    \/ state.cumulative_drawdown <= 0 - state.equity

\* apply_circuit_breakers with the default configuration (circuit_breakers = {},
\* so both loss breakers are 1.0 * equity).  TRUE: trading halts.
ApplyCircuitBreakers(state) ==
    \/ state.daily_loss <= 0 - state.equity
    \/ state.cumulative_drawdown <= 0 - state.equity
    \/ state.open_risk > MaxPortfolioHeatPct * state.equity

\* A leverage test that never rejects.
LeverageNeverExceeded(position_size, equity) == FALSE

\* notional / equity > max_leverage
LeverageExceeded(position_size, equity) ==
    position_size * 10 > MaxLeverageTenths * equity

\* An approval that republishes the payload as it came.
ApprovedEventUnmarked(payload) == Event("approved_signal", payload)

\* approved_event: {**event.payload, "risk_approved": True}
ApprovedEvent(payload) ==
    Event("approved_signal", [risk_approved |-> TRUE] @@ payload)

\* A test of the risk fields that lets every payload through.
IncompleteRiskNever(risk) == FALSE

\* The two early returns of RiskService._handle_signal: no risk object, or
\* one without stop_distance or position_size.
IncompleteRisk(risk) == risk.stop_distance = 0 \/ risk.position_size = 0

\* RiskService._handle_signal: the bus after the event, what was decided, and
\* whether _calculate_open_risk queried the positions table (queried).
RiskHandleSignal(b, pos, event) ==
    LET risk  == event.payload.risk
        state == PortfolioState(PlaceholderEquity,
                     CalculateOpenRisk(pos) + risk.stop_distance * risk.position_size,
                     0, 0)
    IN
    IF IncompleteRisk(risk)
    THEN [bus |-> b, outcome |-> "incomplete_risk_payload", queried |-> FALSE]
    ELSE IF ApplyCircuitBreakers(state)
    THEN [bus |-> b, outcome |-> "rejected_circuit_breaker", queried |-> TRUE]
    ELSE IF LeverageExceeded(risk.position_size, PlaceholderEquity)
    THEN [bus |-> b, outcome |-> "rejected_leverage", queried |-> TRUE]
    ELSE [bus |-> Publish(b, "risk", "approved_signals", ApprovedEvent(event.payload)),
          outcome |-> "approved", queried |-> TRUE]

\* One iteration of RiskService.run that consumes an event.
RiskRun ==
    /\ running["risk"] /\ loop["risk"] = AtHead
    /\ CanConsume(bus, "risk", "signals", last_id["risk"])
    /\ LET got == Consume(bus, "risk", "signals", last_id["risk"])
           res == RiskHandleSignal(got.bus, positions, got.event)
       IN /\ bus' = res.bus
          /\ last_id' = [last_id EXCEPT !["risk"] = got.message_id]
          /\ delivered' = delivered \cup {Delivery("risk", "signals", got)}
    /\ UNCHANGED <<settings, running, orders, positions, venue_calls, last_exec,
                   seen, recon_log, loop, account_states, env, clients, last_recon, price_history, sizing, data>>

----------------------------------------------------------------------------
(* Producers and the process lifecycle *)

\* The number of events on the producer side of the signals stream.
Published(b) ==
    IF settings.redis_enabled THEN Len(b.streams["signals"])
    ELSE Len(b.queue["strategy"])

\* StrategyService._handle_market_event publishing one signal on its bus.
PublishSignal(P) ==
    /\ Published(bus) < MaxSignals
    /\ \E payload \in P :
         bus' = Publish(bus, "strategy", "signals", Event("signal", payload))
    /\ UNCHANGED <<settings, last_id, running, orders, positions, venue_calls,
                   delivered, last_exec, seen, recon_log, loop, account_states, env, clients, last_recon, price_history, sizing, data>>

\* A caller holding a service object publishes on that service's bus
\* (service.bus.publish), as a test of the in-memory backend does.
HarnessPublish(svc, stream, P) ==
    /\ ~settings.redis_enabled
    /\ env.injected < MaxInjected
    /\ \E payload \in P :
         bus' = Publish(bus, svc, stream,
                        Event(IF stream = "signals" THEN "signal" ELSE "approved_signal",
                              payload))
    /\ env' = [env EXCEPT !.injected = @ + 1]
    /\ UNCHANGED <<settings, last_id, running, orders, positions, venue_calls,
                   delivered, last_exec, seen, recon_log, loop, account_states, clients, last_recon, price_history, sizing, data>>

\* The equity values an account feed reports.
AccountEquities == {50000, 200000}

\* An account feed stores an AccountState row (models/account.py declares the
\* table; no service of the repository writes it).
RecordAccountState ==
    /\ Len(account_states) < MaxAccountRows
    /\ \E equity \in AccountEquities : account_states' = Append(account_states, equity)
    /\ UNCHANGED <<settings, bus, last_id, running, orders, positions, venue_calls,
                   delivered, last_exec, seen, recon_log, loop, env, clients, last_recon, price_history, sizing, data>>

\* The service process is started again: __init__ sets _last_id to "0-0" and
\* connect() makes a new in-memory queue; the Redis streams and the database
\* are what they were.
Restart(svc) ==
    /\ env.restarts < MaxRestarts
    /\ env' = [env EXCEPT !.restarts = @ + 1]
    /\ last_id' = [last_id EXCEPT ![svc] = ZeroId]
    /\ running' = [running EXCEPT ![svc] = TRUE]
    /\ bus' = [bus EXCEPT !.queue[svc] = <<>>]
    /\ loop' = [loop EXCEPT ![svc] = AtHead]
    /\ UNCHANGED <<settings, orders, positions, venue_calls, delivered, last_exec,
                   seen, recon_log, account_states, clients, last_recon, price_history, sizing, data>>

----------------------------------------------------------------------------
(* ReconciliationService *)

\* An optional number of a venue response: None, or Some(x).
None == <<>>
Some(x) == <<x>>
Truthy(v) == v # None /\ v[1] # 0
PyOr(a, b) == IF Truthy(a) THEN a ELSE b

VenuePosition(symbol, contracts, positionAmt, size) ==
    [symbol |-> symbol, contracts |-> contracts, positionAmt |-> positionAmt,
     size |-> size]

VenueOrder(type, reduceOnly) == [type |-> type, reduceOnly |-> reduceOnly]

\* The order types whose lower-cased name begins with "stop".
StopTypes == {"stop", "stop_market", "stop_limit", "STOP_MARKET", "STOP"}

\* What the venue answers to fetch_positions and fetch_open_orders for a symbol.
ViewKinds ==
    [raises : BOOLEAN, position : {"none", "open", "zero_contracts"},
     orders : {"none", "limit", "stop_market"}]

\* The answers with each of the quantity fields a venue may provide, and with
\* orders that are a stop or reduce-only but not both.
WideViewKinds ==
    { v \in [raises : {FALSE},
             position : {"none", "open", "zero_contracts", "zero_position_amt",
                         "zero_size"},
             orders : {"none", "stop_market", "stop_not_reduce_only",
                       "reduce_only_limit", "STOP"}] :
        \/ v.orders = "none"
        \/ v.position = "open"
        \/ v.position = "none" /\ v.orders = "stop_market" }

ExchangePositions(kind, symbol) ==
    CASE kind = "none" -> <<>>
      [] kind = "open" -> <<VenuePosition(symbol, Some(1000), None, None)>>
      [] kind = "zero_contracts" -> <<VenuePosition(symbol, Some(0), None, None)>>
      [] kind = "zero_position_amt" -> <<VenuePosition(symbol, None, Some(0), None)>>
      [] kind = "zero_size" -> <<VenuePosition(symbol, None, None, Some(0))>>

OpenOrders(kind) ==
    CASE kind = "none" -> <<>>
      [] kind = "limit" -> <<VenueOrder("limit", FALSE)>>
      [] kind = "stop_market" -> <<VenueOrder("stop_market", TRUE)>>
      [] kind = "stop_not_reduce_only" -> <<VenueOrder("stop_market", FALSE)>>
      [] kind = "reduce_only_limit" -> <<VenueOrder("limit", TRUE)>>
      [] kind = "STOP" -> <<VenueOrder("limit", FALSE), VenueOrder("STOP", TRUE)>>

\* _has_reduce_only_stop
HasReduceOnlyStop(open_orders) ==
    \E i \in DOMAIN open_orders :
        open_orders[i].reduceOnly /\ open_orders[i].type \in StopTypes

\* A repair request that leaves out the stop price.
RepairPayloadNoStopPrice(position) ==
    [symbol |-> position.symbol, exchange |-> position.exchange,
     strategy |-> position.strategy, quantity |-> position.quantity,
     stop_price |-> 0]

RepairPayload(position) ==
    [symbol |-> position.symbol, exchange |-> position.exchange,
     strategy |-> position.strategy, quantity |-> position.quantity,
     stop_price |-> position.stop_price]

\* A repair that is sent to ExecutionService as an approved signal.
PublishStopRepairAsSignal(b, position) ==
    Publish(b, "reconciliation", "approved_signals",
            Event("approved_signal", RepairPayload(position)))

\* _publish_stop_repair
PublishStopRepair(b, position) ==
    Publish(b, "reconciliation", "reconciliations",
            Event("reinstall_stop", RepairPayload(position)))

Logged(event, local) == [event |-> event, symbol |-> local.symbol]

\* _verify_position: r is [bus, log] before the position and the result after it.
VerifyPosition(r, local, exchange_positions, open_orders) ==
    LET m == { i \in DOMAIN exchange_positions :
                 exchange_positions[i].symbol = local.symbol }
        matching == exchange_positions[CHOOSE i \in m : \A j \in m : i <= j]
        qty == PyOr(PyOr(matching.contracts, matching.positionAmt), matching.size)
        closed == IF qty # None /\ Abs(qty[1]) = 0
                  THEN {Logged("position_closed_but_local_open", local)} ELSE {}
    IN
    IF m = {}
    THEN [r EXCEPT !.log = @ \cup {Logged("position_missing_on_exchange", local)}]
    ELSE IF HasReduceOnlyStop(open_orders)
    THEN [r EXCEPT !.log = @ \cup closed]
    ELSE [bus |-> IF settings.auto_repair THEN PublishStopRepair(r.bus, local)
                  ELSE r.bus,
          log |-> r.log \cup closed \cup {Logged("stop_missing", local)}]

\* The loop of _reconcile_once over the first n rows it read, views[i] being
\* the venue's answers for row i.
RECURSIVE ReconcileRows(_, _, _, _)
ReconcileRows(r, rows, views, n) ==
    IF n = 0 THEN r
    ELSE LET before == ReconcileRows(r, rows, views, n - 1)
             local == rows[n]
         IN IF local.exchange \notin Exchanges THEN before
            ELSE IF views[n].raises
            THEN [before EXCEPT !.log = @ \cup {Logged("exchange_fetch_failed", local)}]
            ELSE VerifyPosition(before, local,
                                ExchangePositions(views[n].position, local.symbol),
                                OpenOrders(views[n].orders))

\* The orders in which query(Position).all() may return the rows of the table.
Orderings(pos) ==
    { rows \in [1..BagCardinality(pos) -> BagToSet(pos)] :
        \A r \in BagToSet(pos) :
            Cardinality({ i \in DOMAIN rows : rows[i] = r }) = CopiesIn(r, pos) }

\* One iteration of ReconciliationService.run.  _reconcile_once reads the rows'
\* attributes after session_scope has committed and closed the session that
\* loaded them (db.py: sessionmaker with its default expire_on_commit): loaded
\* says whether the ORM still serves them; when it does not, the attribute
\* access raises outside the try and run() ends.
\* Views: the answers the venue may give for a row.
ReconcilePass(Views) ==
    /\ running["reconciliation"]
    /\ env.reconciles < MaxReconciles
    /\ env' = [env EXCEPT !.reconciles = @ + 1]
    /\ \E loaded \in BOOLEAN, rows \in Orderings(positions) :
       \E views \in [DOMAIN rows -> Views] :
         LET r == ReconcileRows([bus |-> bus, log |-> recon_log], rows, views,
                                Len(rows))
         IN /\ last_recon' = [rows |-> rows, views |-> views, loaded |-> loaded]
            /\ IF loaded \/ rows = <<>>
               THEN bus' = r.bus /\ recon_log' = r.log /\ running' = running
               ELSE /\ bus' = bus /\ recon_log' = recon_log
                    /\ running' = [running EXCEPT !["reconciliation"] = FALSE]
    /\ UNCHANGED <<settings, last_id, orders, positions, venue_calls, delivered,
                   last_exec, seen, loop, account_states, clients, price_history, sizing, data>>

ReconcileOnce == ReconcilePass(ViewKinds)

----------------------------------------------------------------------------
(* The run() loops of StrategyService, RiskService and ExecutionService, one
   await at a time *)

LoopServices == {"strategy", "risk", "execution"}

\* The stream each run() passes to bus.consume.
InputStream(svc) ==
    CASE svc = "strategy" -> "market_data"
      [] svc = "risk" -> "signals"
      [] svc = "execution" -> "approved_signals"

MarketEvent(exchange, symbol) ==
    Event("market_data", [exchange |-> exchange, symbol |-> symbol])

\* DataService._poll_once publishing one market_data event.  On the in-memory
\* backend the event goes to DataService's own queue, which no other service
\* reads.
PublishMarket ==
    /\ settings.redis_enabled
    /\ Len(bus.streams["market_data"]) < MaxSignals
    /\ bus' = Publish(bus, "strategy", "market_data", MarketEvent("binance", "BTC/USDT"))
    /\ UNCHANGED <<settings, last_id, running, orders, positions, venue_calls,
                   delivered, last_exec, seen, recon_log, loop, account_states, env, clients, last_recon, price_history, sizing, data>>

\* A run() loop that starts its handler without awaiting it.
HandlerNotAwaited(l) == TRUE

\* "await self._handle_...(event)": the loop goes on only when the handler of
\* the event it consumed has returned.
HandlerAwaited(l) == l.handling = <<>>

\* "while not self.is_stopping:" passed, bus.consume called.
EnterConsume(svc) ==
    /\ running[svc]
    /\ ~loop[svc].stopping /\ ~loop[svc].waiting /\ HandlerAwaited(loop[svc])
    /\ loop' = [loop EXCEPT ![svc].waiting = TRUE]
    /\ UNCHANGED <<settings, bus, last_id, running, orders, positions, venue_calls,
                   delivered, last_exec, seen, recon_log, account_states, env, clients, last_recon, price_history, sizing, data>>

\* bus.consume raises asyncio.TimeoutError (xread returned nothing within
\* block=1000 ms) and the loop continues.  The in-memory queue.get() has no
\* timeout.
ConsumeTimeout(svc) ==
    /\ running[svc] /\ loop[svc].waiting
    /\ settings.redis_enabled
    /\ ~CanConsume(bus, svc, InputStream(svc), last_id[svc])
    /\ loop' = [loop EXCEPT ![svc].waiting = FALSE]
    /\ UNCHANGED <<settings, bus, last_id, running, orders, positions, venue_calls,
                   delivered, last_exec, seen, recon_log, account_states, env, clients, last_recon, price_history, sizing, data>>

\* bus.consume returns an event and the loop stores its message id in _last_id
\* and calls the handler.
ConsumeEvent(svc) ==
    /\ running[svc] /\ loop[svc].waiting
    /\ CanConsume(bus, svc, InputStream(svc), last_id[svc])
    /\ LET got == Consume(bus, svc, InputStream(svc), last_id[svc]) IN
       /\ bus' = got.bus
       /\ last_id' = [last_id EXCEPT ![svc] = got.message_id]
       /\ delivered' = delivered \cup {Delivery(svc, InputStream(svc), got)}
       /\ loop' = [loop EXCEPT ![svc].waiting = FALSE,
                               ![svc].handling = Append(@, [id |-> got.message_id,
                                                            event |-> got.event])]
    /\ UNCHANGED <<settings, running, orders, positions, venue_calls, last_exec,
                   seen, recon_log, account_states, env, clients, last_recon, price_history, sizing, data>>

\* StrategyService._handle_market_event returns, having published a signal of
\* P or nothing (what _evaluate_trend_strategy decided on the price history).
StrategyHandle(P) ==
    /\ running["strategy"] /\ loop["strategy"].handling # <<>>
    /\ \/ bus' = bus
       \/ /\ Published(bus) < MaxSignals
          /\ \E payload \in P :
                bus' = Publish(bus, "strategy", "signals", Event("signal", payload))
    /\ loop' = [loop EXCEPT !["strategy"].handling = Tail(@)]
    /\ UNCHANGED <<settings, last_id, running, orders, positions, venue_calls,
                   delivered, last_exec, seen, recon_log, account_states, env, clients, last_recon, price_history, sizing, data>>

\* RiskService._handle_signal returns.
RiskHandle ==
    /\ running["risk"] /\ loop["risk"].handling # <<>>
    /\ bus' = RiskHandleSignal(bus, positions, Head(loop["risk"].handling).event).bus
    /\ loop' = [loop EXCEPT !["risk"].handling = Tail(@)]
    /\ UNCHANGED <<settings, last_id, running, orders, positions, venue_calls,
                   delivered, last_exec, seen, recon_log, account_states, env, clients, last_recon, price_history, sizing, data>>

\* ExecutionService._handle_signal returns, or raises and ends run().
ExecHandle(Inputs) ==
    /\ running["execution"] /\ loop["execution"].handling # <<>>
    /\ LET h == Head(loop["execution"].handling) IN
       \E in \in Inputs : ExecApply(h.id, h.event.payload, in)
    /\ loop' = [loop EXCEPT !["execution"].handling = Tail(@)]
    /\ UNCHANGED <<settings, bus, last_id, delivered, recon_log, account_states, env, clients, last_recon, price_history, sizing, data>>

\* The override of stop() after super().stop(): close() is awaited on every
\* client in turn, an exception of a close swallowed.
CloseClients(svc) ==
    \E res \in [ClientNames -> CloseResults] :
        clients' = [clients EXCEPT ![svc] = [phase |-> "stopping", close |-> res]]

\* stop() of a looping service: the _stopping event is set (BaseService.stop),
\* and ExecutionService.stop goes on to close its clients.
Stop(svc) ==
    /\ running[svc] /\ ~loop[svc].stopping
    /\ loop' = [loop EXCEPT ![svc].stopping = TRUE]
    /\ IF svc \in ClientServices THEN CloseClients(svc) ELSE clients' = clients
    /\ UNCHANGED <<settings, bus, last_id, running, orders, positions, venue_calls,
                   delivered, last_exec, seen, recon_log, account_states, env, last_recon, price_history, sizing, data>>

\* "while not self.is_stopping:" fails and run() returns.
LoopExit(svc) ==
    /\ running[svc]
    /\ loop[svc].stopping /\ ~loop[svc].waiting /\ HandlerAwaited(loop[svc])
    /\ running' = [running EXCEPT ![svc] = FALSE]
    /\ UNCHANGED <<settings, bus, last_id, orders, positions, venue_calls, delivered,
                   last_exec, seen, recon_log, loop, account_states, env, clients, last_recon, price_history, sizing, data>>

\* The signals of the step-by-step specifications.
LoopPayloads == { SignalPayload("trend", "binance", "BTC/USDT", "buy", 5000, 200, 1000) }

\* The venue accepting every order, the clock at one value.
SteadyVenue == { in \in ReliableVenue : in.ts_entry = 0 /\ in.ts_stop = 0 }

LoopSteps ==
    \/ PublishMarket
    \/ \E svc \in LoopServices : EnterConsume(svc)
    \/ \E svc \in LoopServices : ConsumeTimeout(svc)
    \/ \E svc \in LoopServices : ConsumeEvent(svc)
    \/ StrategyHandle(LoopPayloads)
    \/ RiskHandle
    \/ ExecHandle(SteadyVenue)

\* Every await of a live loop is eventually resumed when it can be.
LoopFairness ==
    /\ \A svc \in LoopServices : /\ WF_vars(EnterConsume(svc))
                                 /\ WF_vars(ConsumeTimeout(svc))
                                 /\ WF_vars(ConsumeEvent(svc))
                                 /\ WF_vars(LoopExit(svc))
    /\ WF_vars(StrategyHandle(LoopPayloads))
    /\ WF_vars(RiskHandle)
    /\ WF_vars(ExecHandle(SteadyVenue))

InitLoop == Init /\ ~settings.dry_run /\ settings.auto_repair

InitDeliver == InitLoop /\ settings.redis_enabled

\* The three loops on the Redis backend, never stopped.
NextDeliver == LoopSteps

SpecDeliver == InitDeliver /\ [][NextDeliver]_vars /\ LoopFairness

\* The three loops on either backend, with stop() called at any time and, on
\* the in-memory backend, a harness publishing on the risk and execution buses.
NextLoop ==
    \/ LoopSteps
    \/ HarnessPublish("risk", "signals", LoopPayloads)
    \/ HarnessPublish("execution", "approved_signals", LoopPayloads)
    \/ \E svc \in LoopServices : Stop(svc)
    \/ \E svc \in LoopServices : LoopExit(svc)

SpecLoop == InitLoop /\ [][NextLoop]_vars /\ LoopFairness

----------------------------------------------------------------------------
(* StrategyService: the price history and the trend strategy *)

\* The close prices of the market events, in hundredths.
Closes == {5000, 5100}

\* A market event whose payload has no "data" (or an empty list).
NoData == 0

\* deque.append on a deque(maxlen=500): the oldest close is dropped when full.
DequeAppend(history, close) ==
    IF Len(history) < HistoryMaxLen THEN Append(history, close)
    ELSE Append(Tail(history), close)

Max(a, b) == IF a >= b THEN a ELSE b

\* The sum of the last n elements of a sequence of numbers (all of them when it
\* is shorter): prices[-n:].sum().
RECURSIVE SumLast(_, _)
SumLast(seq, n) ==
    IF n = 0 \/ seq = <<>> THEN 0
    ELSE seq[Len(seq)] + SumLast(SubSeq(seq, 1, Len(seq) - 1), n - 1)

\* np.abs(np.diff(prices))
AbsDiff(prices) == [i \in 1..(Len(prices) - 1) |-> Abs(prices[i + 1] - prices[i])]

\* A warm-up test that leaves out the "+ 1".
EnoughHistoryNoExtra(history) ==
    ~(Len(history) < Max(Max(FastMaPeriod, SlowMaPeriod), AtrPeriod))

\* not (len(history) < max(fast_period, slow_period, atr_period) + 1)
EnoughHistory(history) ==
    ~(Len(history) < Max(Max(FastMaPeriod, SlowMaPeriod), AtrPeriod) + 1)

\* calculate_position_size without volatility targeting, for equity in whole
\* units and stop_distance in hundredths: max_risk / stop_distance.
RiskCappedSize(equity, stop_distance) ==
    (equity * MaxRiskPerTradePct) \div stop_distance

\* _evaluate_trend_strategy: None, or [action, risk].  The means are compared
\* as sums: fast_ma > slow_ma * 1.001 is
\* sum_fast * slow_period * 1000 > sum_slow * fast_period * 1001, and the ATR is
\* the sum of the last atr_period absolute differences over atr_period.
EvaluateTrendStrategy(history) ==
    LET sum_fast == SumLast(history, FastMaPeriod)
        sum_slow == SumLast(history, SlowMaPeriod)
        sum_atr  == SumLast(AbsDiff(history), AtrPeriod)
        action == IF sum_fast * SlowMaPeriod * 1000 > sum_slow * FastMaPeriod * 1001
                  THEN "buy"
                  ELSE IF sum_fast * SlowMaPeriod * 1000 < sum_slow * FastMaPeriod * 999
                  THEN "sell" ELSE "none"
        stop_distance == (sum_atr * AtrMultiplier) \div AtrPeriod
    IN
    IF ~EnoughHistory(history) THEN None
    ELSE IF Len(history) <= AtrPeriod \/ sum_atr <= 0 THEN None
    ELSE IF action = "none" THEN None
    ELSE Some([action |-> action,
               risk |-> [stop_distance |-> stop_distance,
                         position_size |-> RiskCappedSize(PlaceholderEquity,
                                                          stop_distance)]])

\* _handle_market_event for an event of key (exchange, symbol) whose last
\* candle closes at close: history and bus after it.
HandleMarketEvent(hist, b, key, close) ==
    LET history == DequeAppend(hist[key], close)
        decision == EvaluateTrendStrategy(history)
    IN
    IF close = NoData THEN [price_history |-> hist, bus |-> b]
    ELSE [price_history |-> [hist EXCEPT ![key] = history],
          bus |-> IF decision = None THEN b
                  ELSE Publish(b, "strategy", "signals",
                           Event("signal",
                                 [strategy |-> "trend", exchange |-> key[1],
                                  symbol |-> key[2], decision |-> decision[1].action,
                                  price |-> close, risk |-> decision[1].risk]))]

\* StrategyService handles one market event.
StrategyFeed ==
    /\ running["strategy"]
    /\ env.closes < MaxCloses
    /\ env' = [env EXCEPT !.closes = @ + 1]
    /\ \E key \in HistoryKeys, close \in Closes \cup {NoData} :
          LET r == HandleMarketEvent(price_history, bus, key, close) IN
          /\ price_history' = r.price_history
          /\ bus' = r.bus
    /\ UNCHANGED <<settings, last_id, running, orders, positions, venue_calls,
                   delivered, last_exec, seen, recon_log, loop, account_states,
                   clients, last_recon, sizing, data>>

\* The histories a key may have when the specification starts: empty, or one
\* close short of full after 499 events at one price (which publish nothing).
PreHistories == { <<>>, [i \in 1..(HistoryMaxLen - 1) |-> 5000] }

NextStrategy == StrategyFeed \/ RiskRun

InitStrategy ==
    /\ Constructed
    /\ settings.redis_enabled /\ ~settings.dry_run /\ settings.auto_repair
    /\ price_history \in [HistoryKeys -> PreHistories]
    /\ Idle

SpecStrategy == InitStrategy /\ [][NextStrategy]_vars

----------------------------------------------------------------------------
(* Shutdown of the services that hold venue clients *)

\* stop() of DataService, ExecutionService or ReconciliationService.
StopService(svc) ==
    /\ clients[svc].phase = "running"
    /\ CloseClients(svc)
    /\ loop' = IF svc \in LoopServices THEN [loop EXCEPT ![svc].stopping = TRUE]
               ELSE loop
    /\ UNCHANGED <<settings, bus, last_id, running, orders, positions, venue_calls,
                   delivered, last_exec, seen, recon_log, account_states, env, last_recon, price_history, sizing, data>>

\* run() sees is_stopping and returns, start() disconnects the bus, and
\* asyncio.run and main return: the process ends.
ExitAfterStop(svc) ==
    /\ clients[svc].phase = "stopping"
    /\ clients' = [clients EXCEPT ![svc].phase = "exited"]
    /\ running' = [s \in Services |-> IF s = svc THEN FALSE ELSE running[s]]
    /\ UNCHANGED <<settings, bus, last_id, orders, positions, venue_calls,
                   delivered, last_exec, seen, recon_log, loop, account_states, env, last_recon, price_history, sizing, data>>

\* SIGINT delivered to run_service: asyncio.run cancels the task of
\* _run_service, start() disconnects the bus in its finally, main logs
\* service.stopped_by_user on the KeyboardInterrupt and the process ends.
Interrupt(svc) ==
    /\ clients[svc].phase # "exited"
    /\ clients' = [clients EXCEPT ![svc].phase = "exited"]
    /\ running' = [s \in Services |-> IF s = svc THEN FALSE ELSE running[s]]
    /\ UNCHANGED <<settings, bus, last_id, orders, positions, venue_calls,
                   delivered, last_exec, seen, recon_log, loop, account_states, env, last_recon, price_history, sizing, data>>

NextShutdown ==
    \/ \E svc \in ClientServices : StopService(svc)
    \/ \E svc \in ClientServices : ExitAfterStop(svc)
    \/ \E svc \in ClientServices : Interrupt(svc)

InitShutdown == Init /\ settings.redis_enabled

SpecShutdown == InitShutdown /\ [][NextShutdown]_vars

----------------------------------------------------------------------------
(* The pipeline *)

Next ==
    \/ PublishSignal(SignalPayloads)
    \/ RiskRun
    \/ ExecRun(VenueInputs)

\* Redis backend, live or dry-run.
InitRedis == Init /\ settings.redis_enabled /\ settings.auto_repair

Spec == InitRedis /\ [][Next]_vars

\* The same pipeline with the ExecutionService process started again, which
\* delivers the approved_signals stream to it from the beginning.
ReplayPayloads ==
    { SignalPayload("trend", "binance", "BTC/USDT", "buy", 5000, 200, 1000),
      SignalPayload("trend", "binance", "BTC/USDT", "sell", 5000, 200, 1000) }

NextReplay ==
    \/ PublishSignal(ReplayPayloads)
    \/ RiskRun
    \/ ExecRun(ReliableVenue)
    \/ Restart("execution")

SpecReplay == InitRedis /\ [][NextReplay]_vars

\* The in-memory backend (redis.enabled false): RiskService and
\* ExecutionService each on the bus they own, a harness publishing signals on
\* RiskService's bus and approved signals on ExecutionService's.
NextMem ==
    \/ HarnessPublish("risk", "signals", SignalPayloads)
    \/ HarnessPublish("execution", "approved_signals", SignalPayloads)
    \/ RiskRun
    \/ ExecRun(VenueInputs)

InitMem == Init /\ ~settings.redis_enabled /\ settings.auto_repair

SpecMem == InitMem /\ [][NextMem]_vars

\* Redis backend, live mode.
InitLive == InitRedis /\ ~settings.dry_run

\* The pipeline fed with signals at and over the limits of RiskService: risk
\* exactly the heat cap (6.00 * 1000 = 0.06 * 100000), a
\* size over max_leverage * equity, and risk fields missing.
RiskPayloads ==
    { SignalPayload("trend", "binance", "BTC/USDT", "buy", 5000, 600, 1000),
      SignalPayload("trend", "binance", "ETH/USDT", "buy", 5000, 400, 1000),
      SignalPayload("trend", "binance", "BTC/USDT", "buy", 5000, 1, 150001),
      SignalPayload("trend", "binance", "BTC/USDT", "sell", 5000, 0, 1000),
      SignalPayload("trend", "binance", "ETH/USDT", "buy", 5000, 0, 0) }

NextRisk ==
    \/ PublishSignal(RiskPayloads)
    \/ RiskRun
    \/ ExecRun(ReliableVenue)

SpecRisk == InitLive /\ [][NextRisk]_vars

\* The live pipeline with an account feed writing the account_states table.
NextEquity ==
    \/ PublishSignal(SignalPayloads)
    \/ RiskRun
    \/ ExecRun(ReliableVenue)
    \/ RecordAccountState

SpecEquity == InitLive /\ [][NextEquity]_vars

\* The live pipeline with ReconciliationService.  Each service's run() loop
\* keeps iterating while it is alive, so an iteration that can consume an
\* event is eventually made.
NextRepair ==
    \/ PublishSignal(ReplayPayloads)
    \/ RiskRun
    \/ ExecRun(ReliableVenue)
    \/ ReconcileOnce

InitRepair == InitLive

SpecRepair ==
    /\ InitRepair
    /\ [][NextRepair]_vars
    /\ WF_vars(RiskRun)
    /\ WF_vars(ExecRun(ReliableVenue))
    /\ WF_vars(ReconcileOnce)

\* The signals of the reconciliation specification: buys of two keys.
ReconPayloads ==
    { SignalPayload("trend", "binance", "BTC/USDT", "buy", 5000, 200, 1000),
      SignalPayload("trend", "binance", "ETH/USDT", "buy", 5000, 200, 1000) }

\* The live pipeline with reconciliation passes over every answer of the venue,
\* auto_repair enabled or not.
NextRecon ==
    \/ PublishSignal(ReconPayloads)
    \/ RiskRun
    \/ ExecRun(SteadyVenue)
    \/ ReconcilePass(WideViewKinds)

InitRecon == Init /\ settings.redis_enabled /\ ~settings.dry_run

SpecRecon == InitRecon /\ [][NextRecon]_vars

----------------------------------------------------------------------------
(* Properties *)

Rows(table) == BagToSet(table)

\* A step of ExecutionService.run on the Redis backend: the cursor moves to the
\* next message of the stream.
ExecStep == last_id'["execution"] = last_id["execution"] + 1

PositionKey(r) == <<r.symbol, r.exchange, r.strategy>>

\* The calls of a handling in which the venue accepted the entry and raised on
\* the stop.
EntryThenStopRaised(calls) ==
    /\ Len(calls) = 2
    /\ calls[1].request.type = "limit" /\ calls[1].ok
    /\ calls[2].request.type = "stop_market" /\ ~calls[2].ok

\* C1: in live mode every Position row that exists has
\* reduce_only_stop_installed = TRUE, whether the row was just created or an
\* existing row was updated (venue calls failing or not).
C1_StopFlagOnEveryPosition ==
    ~settings.dry_run =>
        \A r \in Rows(positions) : r.reduce_only_stop_installed

\* A row that was created by one signal and updated by a second one.
C1_Witness ==
    /\ ~settings.dry_run
    /\ last_exec.id = 2 /\ last_exec.outcome = "stop_installed"
    /\ \E r \in Rows(positions) : r.quantity = 2000 /\ r.reduce_only_stop_installed

\* C2: the heat cap I1: the sum over the Position rows of
\* |quantity| * |entry_price - stop_price| is at most max_portfolio_heat * equity.
C2_HeatCap ==
    CalculateOpenRisk(positions) <= MaxPortfolioHeatPct * PlaceholderEquity

\* C3: when an approved_signal that was handled before is delivered again, the
\* entry order is given the client_order_id it was given the first time, and
\* that is the clientOrderId create_order receives.
C3_SameIdOnRedelivery ==
    (last_exec.id \in DOMAIN seen /\ last_exec.client_order_id # NoId) =>
        /\ last_exec.client_order_id = seen[last_exec.id].client_order_id
        /\ \A i \in DOMAIN last_exec.calls :
              last_exec.calls[i].request.type = "limit" =>
                  last_exec.calls[i].request.clientOrderId
                      = seen[last_exec.id].client_order_id

\* C4: handling again an approved_signal whose first handling installed the
\* stop and wrote the position leaves every Position row as it is: the size is
\* not added a second time, entry_price and stop_price stay.
C4_ReplayLeavesPosition ==
    [][ ( /\ ExecStep
          /\ last_exec'.id \in DOMAIN seen
          /\ seen[last_exec'.id].outcome = "stop_installed"
          /\ \A i \in DOMAIN last_exec'.calls : last_exec'.calls[i].ok )
        => positions' = positions ]_vars

\* The payload passed the checks of _handle_signal (known exchange, risk fields).
Validated(payload) ==
    /\ payload.exchange \in Exchanges
    /\ payload.risk.position_size # 0
    /\ payload.risk.stop_distance # 0

\* C5: with dry_run no create_order call is made, the positions table stays
\* empty, and handling a validated signal adds one Order row with status "new"
\* and raw_response {"status": "dry_run"}.
C5_DryRunIsolation ==
    [][ (settings.dry_run /\ ExecStep) =>
          /\ venue_calls'.entry = 0 /\ venue_calls'.stop = 0
          /\ positions' = EmptyBag
          /\ Validated(last_exec'.payload) =>
                \E r \in Rows(orders') :
                    /\ orders' = orders (+) Row(r)
                    /\ r.status = "new" /\ r.raw_response = "dry_run"
                    /\ r.symbol = last_exec'.payload.symbol
                    /\ r.strategy = last_exec'.payload.strategy ]_vars

\* C6: when the venue accepts the entry and raises on the stop, the handling
\* adds the entry's Order row with status "pending", leaves the positions table
\* as it was, and the service stays in its loop with the cursor past the signal.
C6_StopInstallFailure ==
    [][ (ExecStep /\ EntryThenStopRaised(last_exec'.calls)) =>
          /\ positions' = positions
          /\ \E r \in Rows(orders') :
                /\ orders' = orders (+) Row(r)
                /\ r.client_order_id = last_exec'.client_order_id
                /\ r.status = "pending"
          /\ running'["execution"]
          /\ last_id'["execution"] = last_exec'.id ]_vars

\* The stop of the first signal was refused and the service has handled the
\* second signal.
C6_Witness ==
    /\ Len(seen) = 2
    /\ seen[1].outcome = "stop_install_failed"
    /\ last_exec.id = 2 /\ last_exec.outcome = "stop_installed"
    /\ \E r \in Rows(orders) : r.client_order_id = seen[1].client_order_id
                               /\ r.status = "pending"

\* C8: I2: no two Order rows share a client_order_id, and a handling whose
\* client_order_id is already in the table adds no row.
C8_UniqueClientOrderId ==
    [][ /\ \A r \in Rows(orders') : CopiesIn(r, orders') = 1
        /\ \A r1, r2 \in Rows(orders') :
              r1.client_order_id = r2.client_order_id => r1 = r2
        /\ ( /\ ExecStep
             /\ \E r \in Rows(orders) :
                   r.client_order_id = last_exec'.client_order_id )
           => orders' = orders ]_vars

\* An insert was refused: the handling's client_order_id was already there.
C8_Witness ==
    /\ last_exec.outcome \in {"record_failed", "record_raised"}
    /\ \E r \in Rows(orders) : r.client_order_id = last_exec.client_order_id

\* C9: P2: at most one Position row for each (symbol, exchange, strategy).
C9_OneRowPerKey ==
    /\ \A r \in Rows(positions) : CopiesIn(r, positions) = 1
    /\ \A r1, r2 \in Rows(positions) : PositionKey(r1) = PositionKey(r2) => r1 = r2

\* Two fills of one key, a buy and a sell, both written to its one row.
C9_Witness ==
    /\ Len(seen) = 2
    /\ seen[1].outcome = "stop_installed" /\ seen[2].outcome = "stop_installed"
    /\ \E r \in Rows(positions) : r.quantity = 0

\* C7: a reinstall_stop event published on the reconciliations stream is
\* eventually consumed by ExecutionService.
C7_RepairConsumed ==
    \A n \in 1..(MaxReconciles * MaxSignals) :
        (Len(bus.streams["reconciliations"]) >= n)
            ~> (\E d \in delivered : /\ d.svc = "execution"
                                     /\ d.src = "reconciliations"
                                     /\ d.id = n)

\* C10: on the in-memory backend consume(stream) only returns events that
\* were published to that stream.
C10_StreamIsolation ==
    \A d \in delivered : d.src = d.stream

----------------------------------------------------------------------------
(* RiskService properties *)

\* A step of RiskService.run on the Redis backend, and the signal it consumed.
RiskStep == last_id'["risk"] = last_id["risk"] + 1
RiskConsumed == bus.streams["signals"][last_id["risk"] + 1].payload

ApprovedStream(b) == b.streams["approved_signals"]

CandidateRisk(payload) == payload.risk.stop_distance * payload.risk.position_size

HeatCap == MaxPortfolioHeatPct * PlaceholderEquity

OverLeverage(payload) ==
    payload.risk.position_size * 10 > MaxLeverageTenths * PlaceholderEquity

\* C16: when the open risk of the stored positions plus the signal's
\* stop_distance * position_size is over max_portfolio_heat * equity,
\* RiskService publishes nothing on approved_signals for that signal.
C16_HeatRejection ==
    [][ (RiskStep /\ CalculateOpenRisk(positions) + CandidateRisk(RiskConsumed) > HeatCap)
        => ApprovedStream(bus') = ApprovedStream(bus) ]_vars

\* The stored open risk equals the cap, and the second signal, with a risk
\* above zero and within the cap on its own, was handled and not approved.
C16_Witness ==
    /\ CalculateOpenRisk(positions) = HeatCap
    /\ last_id["risk"] = 2 /\ last_id["execution"] = 1
    /\ Len(ApprovedStream(bus)) = 1
    /\ CandidateRisk(bus.streams["signals"][1].payload) = HeatCap
    /\ CandidateRisk(bus.streams["signals"][2].payload) > 0
    /\ CandidateRisk(bus.streams["signals"][2].payload) <= HeatCap
    /\ ~OverLeverage(bus.streams["signals"][2].payload)

\* C17: a signal with position_size / equity > max_leverage gets nothing
\* published on approved_signals, and every event on approved_signals carries
\* a position_size with position_size / equity <= max_leverage.
C17_LeverageRejection ==
    [][ /\ (RiskStep /\ OverLeverage(RiskConsumed))
            => ApprovedStream(bus') = ApprovedStream(bus)
        /\ \A i \in DOMAIN ApprovedStream(bus') :
              ~OverLeverage(ApprovedStream(bus')[i].payload) ]_vars

\* An over-leverage signal whose risk is within the heat cap was handled and
\* nothing was approved.
C17_Witness ==
    /\ last_id["risk"] = 1
    /\ OverLeverage(bus.streams["signals"][1].payload)
    /\ CandidateRisk(bus.streams["signals"][1].payload) <= HeatCap
    /\ CandidateRisk(bus.streams["signals"][1].payload) > 0
    /\ ApprovedStream(bus) = <<>>

\* The signal has its risk fields and passes the breakers and the leverage test.
PassesRisk(payload, pos) ==
    /\ payload.risk.stop_distance # 0 /\ payload.risk.position_size # 0
    /\ CalculateOpenRisk(pos) + CandidateRisk(payload) <= HeatCap
    /\ ~OverLeverage(payload)

\* C18: a signal that passes the breakers and the leverage test is published
\* once on approved_signals, its payload being the signal's payload with
\* risk_approved = TRUE and nothing else added, removed or changed; RiskService
\* leaves the positions table as it is.
C18_ApprovalRepublish ==
    [][ (RiskStep /\ PassesRisk(RiskConsumed, positions)) =>
          /\ Len(ApprovedStream(bus')) = Len(ApprovedStream(bus)) + 1
          /\ SubSeq(ApprovedStream(bus'), 1, Len(ApprovedStream(bus))) = ApprovedStream(bus)
          /\ LET new == ApprovedStream(bus')[Len(ApprovedStream(bus'))] IN
                /\ new.type = "approved_signal"
                /\ DOMAIN new.payload = DOMAIN RiskConsumed \cup {"risk_approved"}
                /\ new.payload.risk_approved = TRUE
                /\ \A f \in DOMAIN RiskConsumed \ {"risk_approved"} :
                      new.payload[f] = RiskConsumed[f]
          /\ positions' = positions ]_vars

\* A signal was approved while a position was stored.
C18_Witness ==
    /\ last_id["risk"] = 2 /\ Len(ApprovedStream(bus)) = 2
    /\ positions # EmptyBag
    /\ ApprovedStream(bus)[2].payload.risk_approved

\* C19: a signal without a risk object, or without stop_distance or
\* position_size, is dropped: nothing is published on approved_signals, the
\* positions table is not queried, and the service goes on (its loop alive, its
\* cursor past the signal).
C19_MissingRiskDropped ==
    [][ (RiskStep /\ ( \/ RiskConsumed.risk.stop_distance = 0
                       \/ RiskConsumed.risk.position_size = 0 )) =>
          /\ ApprovedStream(bus') = ApprovedStream(bus)
          /\ ~RiskHandleSignal(bus, positions,
                               bus.streams["signals"][last_id["risk"] + 1]).queried
          /\ running'["risk"]
          /\ last_id'["risk"] = last_id["risk"] + 1 ]_vars

\* A signal without stop_distance was dropped and the next signal approved.
C19_Witness ==
    /\ last_id["risk"] = 2
    /\ bus.streams["signals"][1].payload.risk.stop_distance = 0
    /\ Len(ApprovedStream(bus)) = 1

\* The equity the store gives: the latest AccountState row's, or the
\* placeholder when the table is empty.
StoreEquity ==
    IF account_states = <<>> THEN PlaceholderEquity
    ELSE account_states[Len(account_states)]

\* C20: each risk evaluation uses the equity of the latest AccountState row,
\* and the placeholder only when there is no row: a signal with its risk fields
\* is approved exactly when it is within the heat cap and the leverage limit
\* taken on that equity.
C20_EquitySource ==
    [][ (RiskStep /\ ~IncompleteRisk(RiskConsumed.risk)) =>
          ( (ApprovedStream(bus') # ApprovedStream(bus))
            <=> ( /\ CalculateOpenRisk(positions) + CandidateRisk(RiskConsumed)
                        <= MaxPortfolioHeatPct * StoreEquity
                  /\ RiskConsumed.risk.position_size * 10
                        <= MaxLeverageTenths * StoreEquity ) ) ]_vars

----------------------------------------------------------------------------
(* The run() loops: delivery, cursors, timeouts, stop *)

\* The message ids service svc has been handed from its input stream.
DeliveredIds(svc) ==
    { d.id : d \in { e \in delivered : e.svc = svc /\ e.stream = InputStream(svc) } }

\* Service svc has been handed every entry of its input stream up to its
\* cursor.
NoneSkipped(svc) == \A n \in 1..last_id[svc] : n \in DeliveredIds(svc)

ConsumeStep(svc) ==
    /\ Len(loop'[svc].handling) = Len(loop[svc].handling) + 1

\* C12 as stated: on either backend, every successful consume of a run() loop
\* replaces _last_id with a strictly greater value.
C12_CursorStrictlyForward ==
    [][\A svc \in LoopServices : ConsumeStep(svc) => last_id'[svc] > last_id[svc]]_vars

\* C12, amended: on the Redis backend every successful consume replaces
\* _last_id with a strictly greater value; on the in-memory backend it
\* replaces _last_id with the empty message id, from "0-0" the first time and
\* from the empty id itself afterwards.
C12_CursorForwardOnRedis ==
    [][\A svc \in LoopServices : ConsumeStep(svc) =>
          IF settings.redis_enabled
          THEN last_id'[svc] > last_id[svc]
          ELSE last_id'[svc] = EmptyMessageId]_vars

\* On Redis, a loop has consumed twice and its cursor stands at the second
\* entry.
C12_Witness ==
    /\ settings.redis_enabled
    /\ \E svc \in LoopServices : last_id[svc] = 2 /\ DeliveredIds(svc) = {1, 2}

\* C13: on either backend a consume call does not block forever: a run() loop
\* inside bus.consume leaves it, with an event or with a timeout, and the
\* service is still running when it does.
C13_BoundedConsume ==
    \A svc \in LoopServices :
        loop[svc].waiting ~> (~loop[svc].waiting /\ running[svc])

\* C14: on either backend, after stop() has been called on a service its
\* run() loop eventually exits, whether or not another event is published on
\* its input stream.
C14_StopExits ==
    \A svc \in LoopServices : loop[svc].stopping ~> ~running[svc]

\* C15: within a service the handler of a consumed event has returned, with
\* all its writes, venue calls and publishes, before the next event is
\* consumed: a loop never has two consumed events whose handlers have not
\* returned, it is never inside bus.consume while a handler is open, and (on
\* Redis, where events have ids) when ExecutionService consumes an event the
\* last event its handler finished is the one at its cursor.
C15_SingleReader ==
    /\ [](\A svc \in LoopServices :
            /\ Len(loop[svc].handling) <= 1
            /\ loop[svc].waiting => loop[svc].handling = <<>>)
    /\ [][(settings.redis_enabled /\ ConsumeStep("execution")) =>
            last_exec.id = last_id["execution"]]_vars

\* ExecutionService has consumed and handled two events one after the other,
\* and has installed the stop of the first.
C15_Witness ==
    /\ settings.redis_enabled
    /\ last_exec.id = 2
    /\ Len(seen) = 2 /\ seen[1].outcome = "stop_installed"
    /\ loop["execution"].handling = <<>>

----------------------------------------------------------------------------
(* ExecutionService: errors, order of writes, stop shape *)

\* C21: an exception raised while a consumed event is handled is caught and
\* logged and the run() loop goes on: after every handling the service is still
\* running.
C21_LoopSurvival == [][ExecStep => running'["execution"]]_vars

\* The calls of a handling in which the venue raised on the entry.
EntryRaised(calls) ==
    Len(calls) >= 1 /\ calls[1].request.type = "limit" /\ ~calls[1].ok

\* C22: in live mode, when create_order raises on the entry, the handling
\* writes no Order row and no Position row and submits no stop order, the
\* cursor stands past the message and the service stays in its loop.
C22_EntryFailureDropsSignal ==
    [][ (ExecStep /\ ~settings.dry_run /\ EntryRaised(last_exec'.calls)) =>
          /\ orders' = orders
          /\ positions' = positions
          /\ Len(last_exec'.calls) = 1
          /\ venue_calls'.stop = venue_calls.stop
          /\ running'["execution"]
          /\ last_id'["execution"] = last_exec'.id ]_vars

\* The entry of the first signal was refused and the service has handled the
\* second signal to the end, with the Order row of the second alone.
C22_Witness ==
    /\ ~settings.dry_run
    /\ Len(seen) = 2 /\ seen[1].outcome = "order_failed"
    /\ last_exec.id = 2 /\ last_exec.outcome = "stop_installed"
    /\ \A r \in Rows(orders) : r.client_order_id = last_exec.client_order_id
    /\ BagCardinality(orders) = 1

\* C23: in live mode the Order row of an entry is persisted before
\* create_order is called with its client_order_id: after a handling that
\* called create_order for an entry, whether the venue accepted it or raised,
\* an Order row with that client_order_id exists, and a handling whose entry
\* the venue accepted has added that row.
C23_OrderRowPrecedesSubmission ==
    [][ (ExecStep /\ ~settings.dry_run /\ Len(last_exec'.calls) >= 1) =>
          LET entry == last_exec'.calls[1] IN
          /\ \E r \in Rows(orders') :
                r.client_order_id = entry.request.clientOrderId
          /\ entry.ok => \E r \in Rows(orders') :
                /\ r.client_order_id = entry.request.clientOrderId
                /\ orders' = orders (+) Row(r) ]_vars

\* The calls of a handling in which the venue accepted the entry and a stop
\* order was submitted.
EntryThenStop(calls) ==
    /\ Len(calls) = 2
    /\ calls[1].request.type = "limit" /\ calls[1].ok
    /\ calls[2].request.type = "stop_market"

\* C25: for every successful entry in live mode whose Order row was recorded,
\* the stop order submitted is a stop_market with reduceOnly set, on the side
\* opposite to the entry, for the entry's position_size, with stopPrice =
\* price - stop_distance for a buy and price + stop_distance for a sell.
C25_StopOrderShape ==
    [][ (ExecStep /\ ~settings.dry_run /\ EntryThenStop(last_exec'.calls)) =>
          LET entry == last_exec'.calls[1].request
              stop  == last_exec'.calls[2].request
              risk  == last_exec'.payload.risk
          IN /\ stop.type = "stop_market"
             /\ stop.reduceOnly
             /\ stop.symbol = entry.symbol
             /\ stop.side # entry.side /\ stop.side \in {"buy", "sell"}
             /\ stop.amount = risk.position_size /\ stop.amount = entry.amount
             /\ stop.stopPrice = IF entry.side = "buy"
                                 THEN last_exec'.payload.price - risk.stop_distance
                                 ELSE last_exec'.payload.price + risk.stop_distance ]_vars

\* A buy entry and a sell entry have both had their stops submitted: the last
\* one handled was the sell, with its stop above the entry price.
C25_Witness ==
    /\ ~settings.dry_run
    /\ Len(seen) = 2 /\ seen[1].outcome = "stop_installed"
    /\ last_exec.id = 2 /\ EntryThenStop(last_exec.calls)
    /\ last_exec.payload.decision = "sell"
    /\ last_exec.calls[2].request.side = "buy"
    /\ last_exec.calls[2].request.stopPrice = 5400

----------------------------------------------------------------------------
(* ReconciliationService properties *)

\* A step that is one reconciliation pass.
ReconcileStep == env'.reconciles = env.reconciles + 1

\* The events the step has appended to the reconciliations stream.
NewRepairs ==
    SubSeq(bus'.streams["reconciliations"],
           Len(bus.streams["reconciliations"]) + 1,
           Len(bus'.streams["reconciliations"]))

\* The venue's answer holds a position for the row's symbol.
VenueHasPosition(view) == ~view.raises /\ view.position # "none"

\* The venue's answer holds an open order that is reduce-only and whose type
\* begins with "stop", in either case of letters.
VenueHasStop(view) == ~view.raises /\ view.orders \in {"stop_market", "STOP"}

\* The events among evs that are the repair request of position.
RepairsFor(evs, position) ==
    { k \in DOMAIN evs :
        /\ evs[k].type = "reinstall_stop"
        /\ evs[k].payload.symbol = position.symbol
        /\ evs[k].payload.exchange = position.exchange
        /\ evs[k].payload.strategy = position.strategy
        /\ evs[k].payload.quantity = position.quantity
        /\ evs[k].payload.stop_price = position.stop_price }

VenueReportsZero(view) ==
    ~view.raises /\ view.position \in {"zero_contracts", "zero_position_amt", "zero_size"}

\* C27: whenever the matching venue position reports a quantity of zero in
\* whichever of contracts, positionAmt or size it provides, the pass logs
\* position_closed_but_local_open for that local position.
C27_ZeroQuantityDrift ==
    [][ (ReconcileStep /\ last_recon'.loaded) =>
          \A i \in DOMAIN last_recon'.rows :
              VenueReportsZero(last_recon'.views[i]) =>
                  Logged("position_closed_but_local_open", last_recon'.rows[i])
                      \in recon_log' ]_vars

\* C28: a reconciliation pass examines open positions only: a Position row
\* whose quantity is 0 causes no stop_missing report and no reinstall_stop
\* event, so a pass over a table whose rows all have quantity 0 logs nothing
\* and publishes nothing.
C28_OpenPositionsOnly ==
    [][ (ReconcileStep /\ \A i \in DOMAIN last_recon'.rows :
                              last_recon'.rows[i].quantity = 0) =>
          /\ recon_log' = recon_log
          /\ NewRepairs = <<>> ]_vars

\* C29: a reconciliation pass leaves the orders and positions tables as they
\* were and makes no create_order call, whatever it finds and whatever
\* auto_repair is: it only adds log records and appends reinstall_stop events
\* to the reconciliations stream, every other stream staying as it was.
C29_ReconciliationFrame ==
    [][ ReconcileStep =>
          /\ orders' = orders
          /\ positions' = positions
          /\ venue_calls' = venue_calls
          /\ recon_log \subseteq recon_log'
          /\ \A stream \in StreamNames \ {"reconciliations"} :
                bus'.streams[stream] = bus.streams[stream]
          /\ bus'.streams["reconciliations"] =
                bus.streams["reconciliations"] \o NewRepairs
          /\ \A k \in DOMAIN NewRepairs : NewRepairs[k].type = "reinstall_stop" ]_vars

\* A pass over a filled position that found the stop missing and asked for its
\* repair, the tables holding the entry's rows.
C29_Witness ==
    /\ last_recon.rows # <<>> /\ last_recon.loaded
    /\ BagCardinality(orders) >= 1 /\ BagCardinality(positions) >= 1
    /\ \E r \in Rows(positions) : Logged("stop_missing", r) \in recon_log
    /\ Len(bus.streams["reconciliations"]) >= 1
    /\ venue_calls.entry >= 1

----------------------------------------------------------------------------
(* StrategyService properties *)

\* A step in which StrategyService handles one market event.
FeedStep == env'.closes = env.closes + 1

\* The closes a key must hold before a signal may be published for it.
WarmupCloses == Max(Max(FastMaPeriod, SlowMaPeriod), AtrPeriod) + 1

\* The signals on the signals stream of b for key (exchange, symbol).
SignalsFor(b, key) ==
    { k \in DOMAIN b.streams["signals"] :
        /\ b.streams["signals"][k].payload.exchange = key[1]
        /\ b.streams["signals"][k].payload.symbol = key[2] }

\* history is the last HistoryMaxLen closes of before followed by one close.
LastOf(history, before) ==
    \E close \in Closes :
        LET all == Append(before, close) IN
        history = IF Len(all) <= HistoryMaxLen THEN all
                  ELSE SubSeq(all, Len(all) - HistoryMaxLen + 1, Len(all))

\* C30: while the history of an (exchange, symbol) key holds fewer than
\* max(fast_ma_period, slow_ma_period, atr_period) + 1 closes, handling a market
\* event publishes no signal for that key; an event of one key leaves the
\* history of every other key as it was and publishes nothing for it; and each
\* history holds at most the last 500 closes.
C30_StrategyWarmup ==
    /\ [](\A key \in HistoryKeys : Len(price_history[key]) <= HistoryMaxLen)
    /\ [][ FeedStep =>
             \A key \in HistoryKeys :
                /\ Len(price_history'[key]) < WarmupCloses =>
                       SignalsFor(bus', key) = SignalsFor(bus, key)
                /\ \/ /\ price_history'[key] = price_history[key]
                      /\ SignalsFor(bus', key) = SignalsFor(bus, key)
                   \/ /\ LastOf(price_history'[key], price_history[key])
                      /\ \A other \in HistoryKeys \ {key} :
                            price_history'[other] = price_history[other] ]_vars

\* One key is full at 500 closes and has had a signal published for it, while
\* the other holds two closes that differ, one short of the warm-up, and has
\* had none.
C30_Witness ==
    \E key, other \in HistoryKeys :
        /\ Len(price_history[key]) = HistoryMaxLen
        /\ price_history[key][HistoryMaxLen] = 5100
        /\ SignalsFor(bus, key) # {}
        /\ price_history[other] = <<5000, 5100>>
        /\ SignalsFor(bus, other) = {}

----------------------------------------------------------------------------
(* Shutdown *)

\* C24: whenever a process of DataService, ExecutionService or
\* ReconciliationService has exited after a stop signal, close() has been
\* called on every one of its venue clients, whether or not the close of
\* another client raised.
C24_ClientsClosedOnExit ==
    \A svc \in ClientServices :
        clients[svc].phase = "exited" =>
            \A c \in ClientNames : clients[svc].close[c] \in CloseResults


----------------------------------------------------------------------------
(* ExecutionService: what precedes a stop, which side, which rows *)

StopSent(calls) == \E i \in DOMAIN calls : calls[i].request.type = "stop_market"

EntryReturned(calls) ==
    Len(calls) >= 1 /\ calls[1].request.type = "limit" /\ calls[1].ok

\* The handling committed an Order row carrying the entry's client order id.
EntryCommitted ==
    \E r \in Rows(orders') :
        /\ r.client_order_id = last_exec'.client_order_id
        /\ CopiesIn(r, orders') = CopiesIn(r, orders) + 1

\* C33 -- Stop only after a recorded entry: in live mode a handling submits a
\* stop order only when its entry create_order returned and its Order row was
\* committed; when the entry call raises or the commit is refused, the handling
\* submits no stop order and writes no Position row.
C33_StopOnlyAfterRecordedEntry ==
    [][(ExecStep /\ ~settings.dry_run) =>
          LET calls == last_exec'.calls IN
          /\ StopSent(calls) => (EntryReturned(calls) /\ EntryCommitted)
          /\ (Len(calls) >= 1 /\ ~(EntryReturned(calls) /\ EntryCommitted)) =>
                 /\ ~StopSent(calls)
                 /\ venue_calls'.stop = venue_calls.stop
                 /\ positions' = positions]_vars

\* A handling whose entry the venue accepted and whose Order commit was refused,
\* after an earlier one that went through to its stop.
C33_Witness ==
    /\ ~settings.dry_run
    /\ last_exec.outcome = "record_failed"
    /\ EntryReturned(last_exec.calls) /\ ~StopSent(last_exec.calls)
    /\ venue_calls.stop >= 1


\* payload.get("decision") of a payload without the key.
NoDecision == "None"

ApprovedPayload(decision, exchange, sd, size) ==
    [risk_approved |-> TRUE] @@
    SignalPayload("trend", exchange, "BTC/USDT", decision, 5000, sd, size)

\* Events a publisher other than RiskService puts on approved_signals: every
\* decision value, an event type that is not approved_signal, payloads without
\* the risk_approved key, an exchange without a client, absent risk numbers.
DecisionEvents ==
    { Event("approved_signal", ApprovedPayload(d, "binance", 400, 1000)) :
          d \in {"buy", "sell", "hold", NoDecision} }
    \cup
    { Event("signal", SignalPayload("trend", "binance", "BTC/USDT", d, 5000, 400, 1000)) :
          d \in {"buy", NoDecision} }
    \cup
    { Event("approved_signal", ApprovedPayload("buy", "kraken", 400, 1000)),
      Event("approved_signal", ApprovedPayload("buy", "binance", 400, 0)),
      Event("approved_signal", ApprovedPayload("sell", "binance", 0, 1000)) }

\* bus.publish(streams.approved_signals, event) by any holder of the Redis bus.
PublishApproved(Events) ==
    /\ settings.redis_enabled
    /\ env.injected < MaxInjected
    /\ \E event \in Events : bus' = Publish(bus, "risk", "approved_signals", event)
    /\ env' = [env EXCEPT !.injected = @ + 1]
    /\ UNCHANGED <<settings, last_id, running, orders, positions, venue_calls,
                   delivered, last_exec, seen, recon_log, loop, account_states, clients, last_recon, price_history, sizing, data>>

\* The venue free to refuse the entry, accepting every stop.
DecisionVenue == { in \in VenueInputs : in.stop_ok /\ in.ts_stop = in.ts_entry }

NextDecision ==
    \/ PublishApproved(DecisionEvents)
    \/ ExecRun(DecisionVenue)

InitDecision == Init /\ settings.redis_enabled /\ settings.auto_repair

SpecDecision == InitDecision /\ [][NextDecision]_vars

\* What the handling did about the entry: the side of the create_order call in
\* live mode, the side of the Order row added in dry-run mode, "dropped" when
\* it made no call and added no row.
EntrySides ==
    IF settings.dry_run
    THEN { r.side : r \in { q \in Rows(orders') : CopiesIn(q, orders') > CopiesIn(q, orders) } }
    ELSE { last_exec'.calls[i].request.side :
               i \in { j \in DOMAIN last_exec'.calls :
                           last_exec'.calls[j].request.type = "limit" } }

Droppable(payload) ==
    \/ payload.exchange \notin Exchanges
    \/ payload.risk.position_size = 0
    \/ payload.risk.stop_distance = 0

\* C34 -- Decision mapping: a handling of an event from approved_signals
\* submits a buy entry exactly when the payload's decision is "buy" and a sell
\* entry for every other value, a missing one included, whatever the event's
\* type and whether or not risk_approved is in the payload; it makes no entry
\* exactly when the exchange has no client or position_size or stop_distance
\* is missing or zero.
C34_DecisionMapping ==
    [][ExecStep =>
          LET payload == last_exec'.payload IN
          IF Droppable(payload)
          THEN /\ EntrySides = {}
               /\ last_exec'.calls = <<>>
               /\ orders' = orders /\ positions' = positions
          ELSE IF settings.dry_run /\ ~running'["execution"]
          THEN EntrySides = {}
          ELSE EntrySides = {IF payload.decision = "buy" THEN "buy" ELSE "sell"}]_vars

\* A live handling of an event of type "signal" whose payload has neither a
\* decision nor the risk_approved key, submitted as a sell.
C34_Witness ==
    /\ ~settings.dry_run
    /\ last_exec.id >= 1
    /\ bus.streams["approved_signals"][last_exec.id].type = "signal"
    /\ "risk_approved" \notin DOMAIN last_exec.payload
    /\ last_exec.payload.decision = NoDecision
    /\ last_exec.calls # <<>>
    /\ last_exec.calls[1].request.side = "sell"

\* The handlings whose _record_order committed: in dry-run mode the one that
\* logged dry_run_order, in live mode every one that went on to _install_stop.
RecordedOutcomes ==
    {"dry_run_order", "stop_installed", "stop_install_failed", "position_update_failed"}

SignalsRecorded == { i \in DOMAIN seen : seen[i].outcome \in RecordedOutcomes }

\* C35 -- Stop orders are not persisted: the orders table holds entry orders
\* only, each of type limit and carrying the client order id of the entry of a
\* signal that was recorded, one row per recorded signal, however many stops
\* the venue accepted.
C35_StopOrdersNotPersisted ==
    /\ \A r \in Rows(orders) :
          /\ r.type = "limit"
          /\ \E i \in SignalsRecorded : seen[i].client_order_id = r.client_order_id
    /\ BagCardinality(orders) = Cardinality(SignalsRecorded)

\* Two signals handled live, both stops accepted by the venue: four orders at
\* the venue, two Order rows.
C35_Witness ==
    /\ ~settings.dry_run
    /\ venue_calls.stop = 2 /\ venue_calls.entry = 2
    /\ last_exec.outcome = "stop_installed"
    /\ BagCardinality(orders) = 2

----------------------------------------------------------------------------
(* utils/risk.py: calculate_position_size *)

\* Sizes are kept as exact fractions n/d with d > 0, in lowest terms.  Units:
\* equity in whole units, stop_distance in hundredths, max_risk_per_trade,
\* target_portfolio_vol and asset_vol in percent.
RECURSIVE Gcd(_, _)
Gcd(a, b) == IF b = 0 THEN a ELSE Gcd(b, a % b)

Rat(n, d) ==
    LET g == Gcd(Abs(n), d) IN [n |-> n \div g, d |-> d \div g]

RatLeq(a, b) == a.n * b.d <= b.n * a.d

\* min(a, b) of Python: b when b < a, else a.
RatMin(a, b) == IF ~RatLeq(a, b) THEN b ELSE a

RatMax(a, b) == IF ~RatLeq(b, a) THEN b ELSE a

\* a / stop_distance, stop_distance > 0 in hundredths.
PerStopDistance(a, stop_distance) == Rat(a.n * 100, a.d * stop_distance)

Raised(exception) == [raised |-> TRUE, exception |-> exception, size |-> None]

Returned(size) == [raised |-> FALSE, exception |-> "", size |-> Some(size)]

\* calculate_volatility_targeted_position_value
CalculateVolatilityTargetedPositionValue(equity, target_portfolio_vol, asset_vol) ==
    IF asset_vol <= 0 THEN Raised("ValueError")
    ELSE Returned(Rat(equity * target_portfolio_vol, asset_vol))

\* settings.get("max_risk_per_trade", 0.02), in percent
MaxRiskPerTrade(risk_settings) ==
    IF risk_settings.max_risk_per_trade = None THEN MaxRiskPerTradePct
    ELSE risk_settings.max_risk_per_trade[1]

\* settings.get("volatility_targeting", {}).get("enabled")
TargetingEnabled(risk_settings) ==
    /\ risk_settings.volatility_targeting # None
    /\ risk_settings.volatility_targeting[1].enabled

\* calculate_position_size returning the larger of the two sizes.
CalculatePositionSizeLarger(equity, stop_distance, risk_settings, asset_vol) ==
    LET max_risk == Rat(equity * MaxRiskPerTrade(risk_settings), 100)
        risk_capped_size == PerStopDistance(max_risk, stop_distance)
        value == CalculateVolatilityTargetedPositionValue(equity,
                     risk_settings.volatility_targeting[1].target_portfolio_vol,
                     asset_vol[1])
    IN
    IF stop_distance <= 0 THEN Raised("ValueError")
    ELSE IF TargetingEnabled(risk_settings) /\ Truthy(asset_vol)
    THEN IF value.raised THEN value
         ELSE Returned(RatMax(risk_capped_size,
                              PerStopDistance(value.size[1], stop_distance)))
    ELSE Returned(risk_capped_size)

\* calculate_position_size(equity, stop_distance, settings, asset_vol): what it
\* raises or the size it returns.  asset_vol: None or Some(percent).
CalculatePositionSize(equity, stop_distance, risk_settings, asset_vol) ==
    LET max_risk == Rat(equity * MaxRiskPerTrade(risk_settings), 100)
        risk_capped_size == PerStopDistance(max_risk, stop_distance)
        value == CalculateVolatilityTargetedPositionValue(equity,
                     risk_settings.volatility_targeting[1].target_portfolio_vol,
                     asset_vol[1])
    IN
    IF stop_distance <= 0 THEN Raised("ValueError")
    ELSE IF TargetingEnabled(risk_settings) /\ Truthy(asset_vol)
    THEN IF value.raised THEN value
         ELSE Returned(RatMin(risk_capped_size,
                              PerStopDistance(value.size[1], stop_distance)))
    ELSE Returned(risk_capped_size)

\* The arguments of the calls checked.
SizingEquities == {0, 1000, 100000}

SizingStopDistances == {-100, 0, 1, 400}

RiskSettings ==
    [max_risk_per_trade : {None, Some(5)},
     volatility_targeting :
         {None} \cup { Some([enabled |-> e, target_portfolio_vol |-> 1]) : e \in BOOLEAN }]

AssetVols == {None, Some(0), Some(20), Some(100), Some(-20)}

SizingInputs ==
    [equity : SizingEquities, stop_distance : SizingStopDistances,
     settings : RiskSettings, asset_vol : AssetVols]

\* One call of calculate_position_size.
ApplySizing ==
    /\ sizing.in # None /\ sizing.out = None
    /\ LET in == sizing.in[1] IN
       sizing' = [sizing EXCEPT !.out = Some(CalculatePositionSize(in.equity,
                      in.stop_distance, in.settings, in.asset_vol))]
    /\ UNCHANGED <<settings, bus, last_id, running, orders, positions, venue_calls,
                   delivered, last_exec, seen, recon_log, loop, account_states, env,
                   clients, last_recon, price_history, data>>

NextSizing == ApplySizing

InitSizing ==
    /\ Constructed
    /\ settings.redis_enabled /\ ~settings.dry_run /\ settings.auto_repair
    /\ price_history = NoHistory
    /\ data = NotPolled
    /\ \E in \in SizingInputs : sizing = [in |-> Some(in), out |-> None]

SpecSizing == InitSizing /\ [][NextSizing]_vars

\* max_risk_per_trade * equity / stop_distance
SizingBound(in) ==
    PerStopDistance(Rat(MaxRiskPerTrade(in.settings) * in.equity, 100), in.stop_distance)

WithinBound(in, out) ==
    ~out.raised /\ RatLeq(out.size[1], SizingBound(in))

\* Volatility targeting is enabled and the asset_vol passed is negative.
NegativeAssetVol(in) ==
    /\ TargetingEnabled(in.settings)
    /\ in.asset_vol # None /\ in.asset_vol[1] < 0

----------------------------------------------------------------------------
(* DataService *)

\* settings.exchanges as the two loops of _poll_once walk it: every configured
\* exchange's symbols in turn.
PollTargets ==
    << <<"binance", "BTC/USDT">>, <<"binance", "ETH/USDT">>, <<"bybit", "BTC/USDT">> >>

FetchOutcomes == [DOMAIN PollTargets -> BOOLEAN]

\* The body of the symbol loop without its try block: an exception of
\* fetch_ohlcv leaves _poll_once.
FetchAndPublishUnguarded(acc, pair, fetch_ok) ==
    IF fetch_ok
    THEN [acc EXCEPT !.bus = Publish(@, "strategy", "market_data",
                                     MarketEvent(pair[1], pair[2])),
                     !.attempted = Append(@, pair),
                     !.published = Append(@, pair)]
    ELSE [acc EXCEPT !.attempted = Append(@, pair),
                     !.failed = @ \cup {pair},
                     !.raised = TRUE]

\* The body of the symbol loop: fetch_ohlcv, then publish; an exception is
\* logged as data_service.fetch_failed and the loop goes to the next symbol.
FetchAndPublish(acc, pair, fetch_ok) ==
    IF fetch_ok
    THEN [acc EXCEPT !.bus = Publish(@, "strategy", "market_data",
                                     MarketEvent(pair[1], pair[2])),
                     !.attempted = Append(@, pair),
                     !.published = Append(@, pair)]
    ELSE [acc EXCEPT !.attempted = Append(@, pair),
                     !.failed = @ \cup {pair}]

\* The two for loops of _poll_once from the i-th pair on; an exception that
\* left the loop body ends them.
RECURSIVE PollFrom(_, _, _)
PollFrom(acc, i, fetch_ok) ==
    IF i > Len(PollTargets) \/ acc.raised THEN acc
    ELSE PollFrom(FetchAndPublish(acc, PollTargets[i], fetch_ok[i]), i + 1, fetch_ok)

\* One iteration of DataService.run up to its sleep: the whole of _poll_once,
\* the venue's answer to each fetch drawn from FetchOutcomes.
PollOnce ==
    /\ settings.redis_enabled
    /\ data.pc = "head" /\ clients["data"].phase = "running"
    /\ data.polls < MaxPolls
    /\ \E fetch_ok \in FetchOutcomes :
         LET r == PollFrom([bus |-> bus, attempted |-> <<>>, failed |-> {},
                            published |-> <<>>, raised |-> FALSE], 1, fetch_ok)
         IN /\ bus' = r.bus
            /\ data' = [polls |-> data.polls + 1,
                        pc |-> IF r.raised THEN "exited" ELSE "sleeping",
                        attempted |-> r.attempted, failed |-> r.failed,
                        published |-> r.published]
    /\ UNCHANGED <<settings, last_id, running, orders, positions, venue_calls,
                   delivered, last_exec, seen, recon_log, loop, account_states, env,
                   clients, last_recon, price_history, sizing>>

\* asyncio.sleep(self.poll_interval) returns: run() is back at its while.
SleepReturns ==
    /\ data.pc = "sleeping"
    /\ data' = [data EXCEPT !.pc = "head"]
    /\ UNCHANGED <<settings, bus, last_id, running, orders, positions, venue_calls,
                   delivered, last_exec, seen, recon_log, loop, account_states, env,
                   clients, last_recon, price_history, sizing>>

\* "while not self.is_stopping" fails after stop(): run() returns.
DataLoopExit ==
    /\ data.pc = "head" /\ clients["data"].phase = "stopping"
    /\ data' = [data EXCEPT !.pc = "exited"]
    /\ clients' = [clients EXCEPT !["data"].phase = "exited"]
    /\ UNCHANGED <<settings, bus, last_id, running, orders, positions, venue_calls,
                   delivered, last_exec, seen, recon_log, loop, account_states, env,
                   last_recon, price_history, sizing>>

NextData ==
    \/ PollOnce
    \/ SleepReturns
    \/ StopService("data")
    \/ DataLoopExit

InitData == Init /\ settings.redis_enabled /\ ~settings.dry_run /\ settings.auto_repair

\* The event loop runs a task that is ready: the sleep ends, the next poll
\* is made.
SpecData ==
    InitData /\ [][NextData]_vars /\ WF_vars(PollOnce) /\ WF_vars(SleepReturns)

PollStep == data'.polls = data.polls + 1

\* The market_data events a step added to the stream.
NewMarketData ==
    SubSeq(bus'.streams["market_data"], Len(bus.streams["market_data"]) + 1,
           Len(bus'.streams["market_data"]))

EventsFor(events, pair) ==
    Cardinality({ i \in DOMAIN events : events[i] = MarketEvent(pair[1], pair[2]) })

\* C31 -- DataService error isolation: in every poll each configured
\* (exchange, symbol) pair is fetched; a pair whose fetch_ohlcv raised gets no
\* market_data event in that poll, every other pair gets exactly one, and
\* run() is at its sleep afterwards, not exited; and after a poll in which a
\* fetch raised the next poll is made unless the service is stopped.
C31_FetchErrorIsolation ==
    /\ [][PollStep =>
            /\ data'.attempted = PollTargets
            /\ \A i \in DOMAIN PollTargets :
                  EventsFor(NewMarketData, PollTargets[i]) =
                      IF PollTargets[i] \in data'.failed THEN 0 ELSE 1
            /\ Len(NewMarketData) = Len(PollTargets) - Cardinality(data'.failed)
            /\ data'.pc = "sleeping"]_vars
    /\ \A n \in 1..(MaxPolls - 1) :
          (data.polls = n /\ data.failed # {}) ~>
              (data.polls = n + 1 \/ clients["data"].phase # "running")

\* A second poll made after a first one in which a fetch raised; in the second
\* the fetch of the first pair raised and the two pairs after it were published.
C31_Witness ==
    /\ data.polls = 2
    /\ data.failed = {PollTargets[1]}
    /\ data.published = <<PollTargets[2], PollTargets[3]>>
    /\ Len(bus.streams["market_data"]) < 2 * Len(PollTargets) - 1

====
